---------------------------- MODULE Spec2Model ----------------------------
(***************************************************************************)
(* A model of is_constructs.py: the text-to-vector-space pipeline and the  *)
(* similarity aggregation engine.  Each function of the program is an      *)
(* operator computed the way the code computes it, and an action that      *)
(* applies it to inputs drawn from bounded sets.                           *)
(*                                                                         *)
(* Conventions.  Python positions are 0-based, the sequences here are      *)
(* 1-based: position p of the code is position p + 1 here.  A float is a   *)
(* rational [num, den] with den > 0; NaN is 0/0.  A string is the sequence *)
(* of its code points.  A pandas DataFrame is [index, values] (square      *)
(* frames use index for rows and columns).                                 *)
(***************************************************************************)
EXTENDS Integers, Sequences, FiniteSets, TLC

(***************************************************************************)
(* Bounds of the model.                                                    *)
(***************************************************************************)
\* number of rows of gold_items (items of the corpus)
NItems == 4
\* item vector components are 1..MaxVecValue, or NaN
MaxVecValue == 2
\* VariableIds (construct ids) are 1..MaxVarId
MaxVarId == 3
\* n_similarities is drawn from 1..MaxNSim
MaxNSim == 3
\* number of rows of the GoldStandard sheet
NGoldRows == 4
\* Poolids are 1..MaxPoolId
MaxPoolId == 2
\* number of documents of a corpus
NDocs == 2
\* number of items of gold_items in the main script
NTexts == 3
\* number of terms (columns) of a document-term matrix
NTerms == 2
\* number of components of a term vector
VecDim == 2
\* longest list of target terms
NTargets == 2
\* largest n_epochs
MaxEpochs == 2
\* largest number of worker threads
NWorkers == 2
\* batches of one epoch
NBatches == 2
\* largest n_components of train_vectors_lsa
MaxComponents == 3
\* number of constructs of the matrices given to evaluate
NVars == 3
\* a document holds 1..MaxTokens space-separated tokens
MaxTokens == 2
\* a token holds 1..MaxTokenLen characters
MaxTokenLen == 2

(***************************************************************************)
(* Floats.                                                                 *)
(***************************************************************************)
Rat(n) == [num |-> n, den |-> 1]

NaN == [num |-> 0, den |-> 0]

IsNaN(x) == x.den = 0

\* a == b on floats: NaN equals nothing, itself included
RatEq(a, b) == ~IsNaN(a) /\ ~IsNaN(b) /\ a.num * b.den = b.num * a.den

\* a <= b on floats that are not NaN
RatLeq(a, b) == a.num * b.den <= b.num * a.den

RatAdd(a, b) ==
    IF IsNaN(a) \/ IsNaN(b) THEN NaN
    ELSE [num |-> a.num * b.den + b.num * a.den, den |-> a.den * b.den]

RatMul(a, b) ==
    IF IsNaN(a) \/ IsNaN(b) THEN NaN
    ELSE [num |-> a.num * b.num, den |-> a.den * b.den]

RECURSIVE RatSum(_)
RatSum(s) == IF s = <<>> THEN Rat(0) ELSE RatAdd(Head(s), RatSum(Tail(s)))


(***************************************************************************)
(* numpy and pandas helpers, as the program uses them.                     *)
(***************************************************************************)
Min(a, b) == IF a <= b THEN a ELSE b

Max(a, b) == IF a >= b THEN a ELSE b

\* an m x n array filled with v
Full(m, n, v) == [r \in 1..m |-> [c \in 1..n |-> v]]

\* the result of a call: a frame, or the exception that ended the call
DataFrame(index, values) == [raised |-> "none", index |-> index, values |-> values]

Raised(e) == [raised |-> e, index |-> <<>>, values |-> <<>>]

\* np.sort on integers (ascending)
RECURSIVE SortInts(_)
SortInts(s) ==
    IF s = <<>> THEN <<>>
    ELSE LET i == CHOOSE i \in 1..Len(s) : \A j \in 1..Len(s) : s[i] <= s[j]
         IN <<s[i]>> \o SortInts(SubSeq(s, 1, i - 1) \o SubSeq(s, i + 1, Len(s)))

\* np.where(col == v)[0]: the positions holding v, ascending
RECURSIVE np_where(_, _, _)
np_where(col, v, p) ==
    IF p > Len(col) THEN <<>>
    ELSE (IF col[p] = v THEN <<p>> ELSE <<>>) \o np_where(col, v, p + 1)

\* the order np.sort gives floats: ascending, every NaN after every number
FloatBefore(a, b) == IsNaN(b) \/ (~IsNaN(a) /\ RatLeq(a, b))

\* np.sort(x, axis=None) on floats
RECURSIVE np_sort(_)
np_sort(s) ==
    IF s = <<>> THEN <<>>
    ELSE LET i == CHOOSE i \in 1..Len(s) : \A j \in 1..Len(s) : FloatBefore(s[i], s[j])
         IN <<s[i]>> \o np_sort(SubSeq(s, 1, i - 1) \o SubSeq(s, i + 1, Len(s)))

\* mutant of LastK: only the largest element is kept
LastOne(s, k) == SubSeq(s, Max(1, Len(s)), Len(s))

\* x[-k:] for k >= 1: the last k elements, all of x when it has fewer
LastK(s, k) == SubSeq(s, Max(1, Len(s) - k + 1), Len(s))

\* np.average(x): sum / count; 0/0, i.e. NaN, for an empty x (numpy warns, does not raise)
np_average(s) ==
    LET t == RatSum(s)
    IN IF s = <<>> \/ IsNaN(t) THEN NaN ELSE [num |-> t.num, den |-> t.den * Len(s)]

\* mutant of nan_to_num: the NaN stays
NanKept(x) == x

\* np.nan_to_num on one cell
nan_to_num(x) == IF IsNaN(x) THEN Rat(0) ELSE x

\* V * V.T for item vectors of one component: the item similarity matrix
CosineSimilarity(V) == [r \in 1..Len(V) |-> [c \in 1..Len(V) |-> RatMul(V[r], V[c])]]

(***************************************************************************)
(* aggregate_construct_similarity (construct_authors=None).                *)
(***************************************************************************)
\* mutant of TopK: no floor of 2
TopKNoFloor(n_sim) == n_sim

\* k of the top-k average: np.max([n_similarities, 2])
TopK(n_sim) == Max(n_sim, 2)

\* item_indices_all: for i1 in constit_ix_1: [(i1, i2) for i2 in constit_ix_2]
ItemIndicesAll(ix1, ix2) ==
    [q \in 1..(Len(ix1) * Len(ix2)) |->
        <<ix1[((q - 1) \div Len(ix2)) + 1], ix2[((q - 1) % Len(ix2)) + 1]>>]

\* constituent_similarity[i] is an IndexError when i lies outside the array
InBounds(cs, pairs) ==
    \A q \in 1..Len(pairs) :
        /\ pairs[q][1] \in 1..Len(cs)
        /\ pairs[q][2] \in 1..Len(cs[pairs[q][1]])

\* sim_avg of one construct pair: the average of the k highest item similarities
SimAvg(cs, pairs, n_sim) ==
    LET item_sim_sub == [q \in 1..Len(pairs) |-> cs[pairs[q][1]][pairs[q][2]]]
    IN np_average(LastK(np_sort(item_sim_sub), TopK(n_sim)))

\* mutant of StoreCell: the value is mirrored below the diagonal as well
StoreCellMirrored(m, ind_1, ind_2, v) ==
    [m EXCEPT ![ind_1][ind_2] = v, ![ind_2][ind_1] = v]

\* the cell the loop body writes for the pair (ind_1, ind_2)
StoreCell(m, ind_1, ind_2, v) == [m EXCEPT ![ind_1][ind_2] = v]

aggregate_construct_similarity(cs, gi, vids, n_sim) ==
    LET ids == SortInts(vids)
        n == Len(ids)
        Pairs(ind_1, ind_2) ==
            ItemIndicesAll(np_where(gi, ids[ind_1], 1), np_where(gi, ids[ind_2], 1))
        \* the two loops, from the iteration (ind_1, ind_2) on
        RECURSIVE Loop(_, _, _)
        Loop(m, ind_1, ind_2) ==
            IF ind_1 > n - 1 THEN DataFrame(ids, m)
            ELSE IF ind_2 > n THEN Loop(m, ind_1 + 1, ind_1 + 2)
            ELSE IF ~InBounds(cs, Pairs(ind_1, ind_2)) THEN Raised("IndexError")
            ELSE Loop(StoreCell(m, ind_1, ind_2, SimAvg(cs, Pairs(ind_1, ind_2), n_sim)),
                      ind_1, ind_2 + 1)
        looped == Loop(Full(n, n, Rat(0)), 1, 2)
    IN IF looped.raised # "none" THEN looped
       ELSE DataFrame(ids, [r \in 1..n |-> [c \in 1..n |-> nan_to_num(looped.values[r][c])]])

(***************************************************************************)
(* aggregate_construct_similarity with construct_authors given.  authors   *)
(* is the index of constituent_similarity, gold2funk the module's mapping   *)
(* of gold construct ids to construct ids of the author data.              *)
(***************************************************************************)
\* construct_authors[gold2funk[variable_id]] raises KeyError
RaisesKeyError(construct_authors, gold2funk, variable_id) ==
    \/ variable_id \notin DOMAIN gold2funk
    \/ gold2funk[variable_id] \notin DOMAIN construct_authors

\* np.where(authors == construct_authors[gold2funk[variable_id]])[0]
AuthorIndices(authors, construct_authors, gold2funk, variable_id) ==
    np_where(authors, construct_authors[gold2funk[variable_id]], 1)

aggregate_construct_similarity_authors(cs, authors, vids, construct_authors, gold2funk, n_sim) ==
    LET ids == SortInts(vids)
        n == Len(ids)
        Pairs(ind_1, ind_2) ==
            ItemIndicesAll(AuthorIndices(authors, construct_authors, gold2funk, ids[ind_1]),
                           AuthorIndices(authors, construct_authors, gold2funk, ids[ind_2]))
        \* the two loops, from the iteration (ind_1, ind_2) on; after a KeyError the
        \* cell is set to 0 and break leaves the loop over the columns
        RECURSIVE Loop(_, _, _)
        Loop(m, ind_1, ind_2) ==
            IF ind_1 > n - 1 THEN m
            ELSE IF ind_2 > n THEN Loop(m, ind_1 + 1, ind_1 + 2)
            ELSE IF \/ RaisesKeyError(construct_authors, gold2funk, ids[ind_1])
                    \/ RaisesKeyError(construct_authors, gold2funk, ids[ind_2])
            THEN Loop(StoreCell(m, ind_1, ind_2, Rat(0)), ind_1 + 1, ind_1 + 2)
            ELSE Loop(StoreCell(m, ind_1, ind_2, SimAvg(cs, Pairs(ind_1, ind_2), n_sim)),
                      ind_1, ind_2 + 1)
        looped == Loop(Full(n, n, Rat(0)), 1, 2)
    IN DataFrame(ids, [r \in 1..n |-> [c \in 1..n |-> nan_to_num(looped[r][c])]])

(***************************************************************************)
(* recreate_construct_identity_gold.  The cells of the gold matrix are the *)
(* floats 0.0, 1.0, 2.0, written 0, 1, 2.                                  *)
(***************************************************************************)
\* positions of the label v in an index (empty when v is no label of it)
LabelPositions(index, v) == {p \in 1..Len(index) : index[p] = v}

\* np.sort(np.unique(...)) of the values of a sequence
RECURSIVE SortedUnique(_)
SortedUnique(S) ==
    IF S = {} THEN <<>>
    ELSE LET lo == CHOOSE x \in S : \A y \in S : x <= y
         IN <<lo>> \o SortedUnique(S \ {lo})

\* mutant of PoolVarIds: the Poolid filter is lost
AllVarIds(gs, pool_id) == [q \in 1..Len(gs) |-> gs[q].VariableID]

\* gold_standard['VariableID'][gold_standard['Poolid'] == pool_id], in sheet order
PoolVarIds(gs, pool_id) ==
    LET rows == SelectSeq(gs, LAMBDA row : row.Poolid = pool_id)
    IN [q \in 1..Len(rows) |-> rows[q].VariableID]

\* the VariableIDs of the rows whose Poolid is in pool_ids
PooledVarIds(gs, pool_ids) ==
    {gs[q].VariableID : q \in {q \in 1..Len(gs) : \E a \in 1..Len(pool_ids) :
                                                      gs[q].Poolid = pool_ids[a]}}

\* mutant of MarkIdentical: the cell counts the pools instead of being set
CountIdentical(m, r, c) == [m EXCEPT ![r][c] = @ + 1]

\* construct_identity_gold[col][row] = 1 at the positions of the two labels
MarkIdentical(m, r, c) == [m EXCEPT ![r][c] = 1]

\* np.add(m, m.T), then np.fill_diagonal(.., 1)
MirrorAndFillDiagonal(m) ==
    [r \in 1..Len(m) |-> [c \in 1..Len(m) |-> IF r = c THEN 1 ELSE m[r][c] + m[c][r]]]

\* on_missing_row: what pandas does when the row label of the chained assignment
\* df[col][row] = 1 is no label of the frame: "raise" (the Series refuses the label)
\* or "skip" (the Series is enlarged and the frame is left as it was)
recreate_construct_identity_gold(gs, pool_ids, full_var_ids, on_missing_row) ==
    LET ids == IF full_var_ids # <<>> THEN full_var_ids
               ELSE SortedUnique(PooledVarIds(gs, pool_ids))
        n == Len(ids)
        \* the loops over the pools and over the pairs of one pool, from an iteration on
        RECURSIVE Fill(_, _, _, _)
        Fill(m, a, ind_1, ind_2) ==
            IF a > Len(pool_ids) THEN DataFrame(ids, m)
            ELSE LET pool_var_ids == PoolVarIds(gs, pool_ids[a])
                 IN IF ind_1 > Len(pool_var_ids) - 1 THEN Fill(m, a + 1, 1, 2)
                    ELSE IF ind_2 > Len(pool_var_ids) THEN Fill(m, a, ind_1 + 1, ind_1 + 2)
                    ELSE LET lo == Min(pool_var_ids[ind_1], pool_var_ids[ind_2])
                             hi == Max(pool_var_ids[ind_1], pool_var_ids[ind_2])
                         IN IF LabelPositions(ids, hi) = {} THEN Raised("KeyError")
                            ELSE IF LabelPositions(ids, lo) = {}
                            THEN (IF on_missing_row = "raise" THEN Raised("ValueError")
                                  ELSE Fill(m, a, ind_1, ind_2 + 1))
                            ELSE Fill(MarkIdentical(m,
                                          CHOOSE r \in LabelPositions(ids, lo) : TRUE,
                                          CHOOSE c \in LabelPositions(ids, hi) : TRUE),
                                      a, ind_1, ind_2 + 1)
        filled == Fill(Full(n, n, 0), 1, 1, 2)
    IN IF filled.raised # "none" THEN filled
       ELSE DataFrame(ids, MirrorAndFillDiagonal(filled.values))

(***************************************************************************)
(* document_term_cooccurrence.  CountVectorizer(stop_words=None,           *)
(* lowercase=False) keeps sklearn's default token_pattern                  *)
(* (?u)\b\w\w+\b: a term is a maximal run of at least two word characters. *)
(***************************************************************************)
\* \w on the ASCII characters: digits, letters, underscore
IsWordChar(ch) == ch \in (48..57) \cup (65..90) \cup {95} \cup (97..122)

\* re.findall(r"\b\w\w+\b", doc): run is the run of word characters read so far
RECURSIVE FindTerms(_, _, _)
FindTerms(doc, p, run) ==
    IF p > Len(doc) THEN (IF Len(run) >= 2 THEN <<run>> ELSE <<>>)
    ELSE IF IsWordChar(doc[p]) THEN FindTerms(doc, p + 1, Append(run, doc[p]))
    ELSE (IF Len(run) >= 2 THEN <<run>> ELSE <<>>) \o FindTerms(doc, p + 1, <<>>)

\* the order of Python strings: by code point, a prefix first
RECURSIVE StrLess(_, _)
StrLess(a, b) ==
    IF b = <<>> THEN FALSE
    ELSE IF a = <<>> THEN TRUE
    ELSE IF Head(a) # Head(b) THEN Head(a) < Head(b)
    ELSE StrLess(Tail(a), Tail(b))

\* sorted(vocabulary): count_vectorizer.get_feature_names()
RECURSIVE SortedStrings(_)
SortedStrings(S) ==
    IF S = {} THEN <<>>
    ELSE LET lo == CHOOSE x \in S : \A y \in S \ {x} : StrLess(x, y)
         IN <<lo>> \o SortedStrings(S \ {lo})

\* the number of positions of a sequence that hold x
CountOf(seq, x) == Cardinality({q \in 1..Len(seq) : seq[q] = x})

\* the result of document_term_cooccurrence: the frame and the terms
DTMResult(corpus, terms, values) ==
    [raised |-> "none", index |-> corpus, columns |-> terms, values |-> values]

DTMRaised(e) == [raised |-> e, index |-> <<>>, columns |-> <<>>, values |-> <<>>]

\* np.log(k) for a whole number k >= 1, in thousandths
Ln(k) ==
    <<0, 693, 1099, 1386, 1609, 1792, 1946, 2079, 2197, 2303, 2398, 2485, 2565, 2639,
      2708, 2773, 2833, 2890, 2944, 2996, 3045, 3091, 3135, 3178, 3219, 3258, 3296,
      3332, 3367, 3401, 3434, 3466>>[k]

\* Normalizer(norm='l2') and the norm='l2' of TfidfVectorizer: every row is divided by
\* its L2 norm, a row of zeros is left as it is.  A row is kept as its cells before
\* the division and whether the division took place; a divided row has L2 norm 1.
Normalizer(X) ==
    [d \in 1..Len(X) |->
        [cells |-> X[d],
         divided |-> \E t \in 1..Len(X[d]) : X[d][t].num # 0]]

\* the idf of TfidfVectorizer(use_idf=True, smooth_idf=True): ln((1 + n) / (1 + df)) + 1
Idf(n, df) == [num |-> Ln(1 + n) - Ln(1 + df) + 1000, den |-> 1000]

LocalWeightUnshifted(count) == [num |-> IF count = 0 THEN 0 ELSE Ln(count), den |-> 1000]

\* np.log(dt_matrix + 1)
LocalWeight(count) == [num |-> Ln(count + 1), den |-> 1000]

\* column t of global_weight_matrix: with p = cell / column sum,
\* 1 + sum over the documents of p * log(p + 1), divided by log(n + 1)
GlobalWeight(dt_matrix, t) ==
    LET n == Len(dt_matrix)
        RECURSIVE ColSum(_)
        ColSum(d) == IF d > n THEN 0 ELSE dt_matrix[d][t] + ColSum(d + 1)
        total == ColSum(1)
        RECURSIVE Entropy(_)
        Entropy(d) ==
            IF d > n THEN 0
            ELSE dt_matrix[d][t] * (Ln(dt_matrix[d][t] + total) - Ln(total)) + Entropy(d + 1)
    IN [num |-> total * Ln(n + 1) + Entropy(1), den |-> total * Ln(n + 1)]

document_term_cooccurrence(corpus, processing) ==
    LET analyzed == [d \in 1..Len(corpus) |-> FindTerms(corpus[d], 1, <<>>)]
        vocabulary == UNION {{analyzed[d][q] : q \in 1..Len(analyzed[d])} :
                             d \in 1..Len(corpus)}
        terms == SortedStrings(vocabulary)
        dt_matrix == [d \in 1..Len(corpus) |->
                         [t \in 1..Len(terms) |-> CountOf(analyzed[d], terms[t])]]
        df(t) == Cardinality({d \in 1..Len(corpus) : dt_matrix[d][t] > 0})
        dt_matrix_tfidf ==
            [d \in 1..Len(corpus) |-> [t \in 1..Len(terms) |->
                RatMul(Rat(dt_matrix[d][t]), Idf(Len(corpus), df(t)))]]
        dt_matrix_log ==
            [d \in 1..Len(corpus) |-> [t \in 1..Len(terms) |->
                RatMul(Rat(dt_matrix[d][t]),
                       RatMul(LocalWeight(dt_matrix[d][t]), GlobalWeight(dt_matrix, t)))]]
    IN IF vocabulary = {} THEN DTMRaised("ValueError")   \* empty vocabulary
       ELSE IF processing = "count" THEN DTMResult(corpus, terms, dt_matrix)
       ELSE IF processing = "l2"
       THEN DTMResult(corpus, terms,
                      Normalizer([d \in 1..Len(corpus) |->
                                     [t \in 1..Len(terms) |-> Rat(dt_matrix[d][t])]]))
       ELSE IF processing = "tfidf_l2"
       THEN DTMResult(corpus, terms, Normalizer(dt_matrix_tfidf))
       ELSE IF processing = "log_l2"
       THEN DTMResult(corpus, terms, Normalizer(dt_matrix_log))
       ELSE DTMRaised("AssertionError")

(***************************************************************************)
(* parse_text.                                                             *)
(***************************************************************************)
Space == 32

\* ' '.join(words)
RECURSIVE Join(_)
Join(words) ==
    IF words = <<>> THEN <<>>
    ELSE IF Len(words) = 1 THEN words[1]
    ELSE words[1] \o <<Space>> \o Join(Tail(words))

\* the characters of the default ignore_chars  .,:;"'!?-/()[]{}&%0123456789
DefaultIgnoreChars ==
    {46, 44, 58, 59, 34, 39, 33, 63, 45, 47, 40, 41, 91, 93, 123, 125, 38, 37} \cup (48..57)

\* sklearn's ENGLISH_STOP_WORDS, the words of it over the letters a, b, e, s, y:
\* "a", "as", "be", "by"
StopWords == {<<97>>, <<97, 115>>, <<98, 101>>, <<98, 121>>}

\* doc.translate({ord(c): ' ' for c in ignore_chars})
Translate(doc, ignore) == [p \in 1..Len(doc) |-> IF doc[p] \in ignore THEN Space ELSE doc[p]]

\* doc.split(): the maximal runs of characters other than white space
RECURSIVE SplitFrom(_, _, _)
SplitFrom(doc, p, word) ==
    IF p > Len(doc) THEN (IF word # <<>> THEN <<word>> ELSE <<>>)
    ELSE IF doc[p] = Space
         THEN (IF word # <<>> THEN <<word>> ELSE <<>>) \o SplitFrom(doc, p + 1, <<>>)
    ELSE SplitFrom(doc, p + 1, Append(word, doc[p]))

Split(doc) == SplitFrom(doc, 1, <<>>)

\* doc.lower() on ASCII
Lower(doc) == [p \in 1..Len(doc) |-> IF doc[p] \in 65..90 THEN doc[p] + 32 ELSE doc[p]]

\* The stemmers of the stemming package are not part of the program.  Each returns a
\* stem or raises ValueError "when stemming certain words": here both drop a final s
\* of a word of three or more letters, porter2 raises on the words in
\* PorterErrorWords ("b.b") and paicehusk on those in PaiceErrorWords ("B.").
PorterErrorWords == {<<98, 46, 98>>}

PaiceErrorWords == {<<66, 46>>}

DropFinalS(word) ==
    IF Len(word) >= 3 /\ word[Len(word)] = 115 THEN SubSeq(word, 1, Len(word) - 1) ELSE word

stem_porter2(word) ==
    [raised |-> word \in PorterErrorWords, stem |-> DropFinalS(word)]

stem_paicehusk(word) ==
    [raised |-> word \in PaiceErrorWords, stem |-> DropFinalS(word)]

\* mutant of EmitWord: a selector that is no key of the dict selects porter2
EmitWordPorterDefault(word, stemmer) ==
    IF stemmer = "None" THEN [text |-> word, error |-> FALSE]
    ELSE IF word \in PorterErrorWords \/ word \in PaiceErrorWords
         THEN [text |-> word, error |-> TRUE]
    ELSE [text |-> DropFinalS(word), error |-> FALSE]

\* what the loop body adds to parsed_docs[i] for one kept word, and whether the
\* word is appended to error_words.  The dict literal calls both stemmers before
\* .get(stemmer, ...) selects one of the results.
EmitWord(word, stemmer) ==
    IF stemmer = "None" THEN [text |-> word, error |-> FALSE]
    ELSE IF stem_porter2(word).raised \/ stem_paicehusk(word).raised
         THEN [text |-> word, error |-> TRUE]
    ELSE IF stemmer = "porter2" THEN [text |-> stem_porter2(word).stem, error |-> FALSE]
    ELSE IF stemmer = "paicehusk" THEN [text |-> stem_paicehusk(word).stem, error |-> FALSE]
    ELSE [text |-> word, error |-> FALSE]

\* documents[i] after the removal of the ignore characters and the conversion to
\* lower case: the value the loop writes back into the caller's sequence
CleanDocument(doc, lower, ignore_chars) ==
    LET stripped == IF ignore_chars # {} THEN Join(Split(Translate(doc, ignore_chars)))
                    ELSE doc
    IN IF lower THEN Lower(stripped) ELSE stripped

\* the words of a cleaned document that the loop does not skip
KeptWords(cleaned, remove_stop_words) ==
    SelectSeq(Split(cleaned), LAMBDA word : ~(remove_stop_words /\ word \in StopWords))

\* parsed_docs[i] of a cleaned document: every emitted text followed by a space,
\* then ' '.join(parsed_docs[i].split())
ParseDocument(cleaned, stemmer, remove_stop_words) ==
    LET words == KeptWords(cleaned, remove_stop_words)
        RECURSIVE Emitted(_)
        Emitted(q) ==
            IF q > Len(words) THEN <<>>
            ELSE EmitWord(words[q], stemmer).text \o <<Space>> \o Emitted(q + 1)
    IN Join(Split(Emitted(1)))

\* error_words of one cleaned document
ErrorWords(cleaned, stemmer, remove_stop_words) ==
    SelectSeq(KeptWords(cleaned, remove_stop_words),
              LAMBDA word : EmitWord(word, stemmer).error)

\* mutant of FilterNonEmpty: a document equal to an earlier one is dropped as well
FilterDistinct(docs) ==
    LET RECURSIVE From(_)
        From(q) ==
            IF q > Len(docs) THEN <<>>
            ELSE (IF docs[q] # <<>> /\ \A o \in 1..(q - 1) : docs[o] # docs[q]
                  THEN <<docs[q]>> ELSE <<>>) \o From(q + 1)
    IN From(1)

\* list(filter(None, parsed_docs))
FilterNonEmpty(docs) == SelectSeq(docs, LAMBDA d : d # <<>>)

\* documents[i] = ...: the element of the caller's sequence after the iteration
WriteBack(doc, cleaned) == cleaned

\* a document that is not a str: the number v
NotAString(v) == <<-1, v>>

\* isinstance(documents[i], str)
IsString(doc) == \A p \in 1..Len(doc) : doc[p] >= 0

\* mutant of FirstNonString: the assert is skipped
NoNonString(documents) == 0

\* the first i at which the assert of the loop fails, 0 when it never fails
FirstNonString(documents) ==
    IF \A i \in 1..Len(documents) : IsString(documents[i]) THEN 0
    ELSE CHOOSE i \in 1..Len(documents) :
             /\ ~IsString(documents[i])
             /\ \A o \in 1..(i - 1) : IsString(documents[o])

\* the call: what it returns and what it leaves in the caller's documents.  A failed
\* assert carries the message "Document not a string:" + str(documents[i]), kept
\* here as the element itself; the iterations before it have written their documents.
parse_text(documents, stemmer, lower, remove_stop_words, ignore_chars) ==
    LET bad == FirstNonString(documents)
        cleaned == [i \in 1..Len(documents) |->
                       CleanDocument(documents[i], lower, ignore_chars)]
        RECURSIVE AllErrorWords(_)
        AllErrorWords(i) ==
            IF i > Len(documents) THEN <<>>
            ELSE ErrorWords(cleaned[i], stemmer, remove_stop_words) \o AllErrorWords(i + 1)
    IN IF bad # 0
       THEN [raised |-> "AssertionError",
             message |-> documents[bad],
             parsed_docs |-> <<>>,
             error_words |-> <<>>,
             documents |-> [i \in 1..Len(documents) |->
                               IF i < bad THEN WriteBack(documents[i], cleaned[i])
                               ELSE documents[i]]]
       ELSE [raised |-> "none",
             message |-> <<>>,
             parsed_docs |-> FilterNonEmpty([i \in 1..Len(documents) |->
                                 ParseDocument(cleaned[i], stemmer, remove_stop_words)]),
             error_words |-> AllErrorWords(1),
             documents |-> [i \in 1..Len(documents) |-> WriteBack(documents[i], cleaned[i])]]

(***************************************************************************)
(* vector_average, and the item similarity of the main script.  Vector     *)
(* components and DTM cells are integers held in floats.                   *)
(***************************************************************************)
\* Normalizer(norm='l2') on a row of one component: x / |x|, and 0 stays 0
NormalizeL2(x) ==
    IF x.num > 0 THEN Rat(1) ELSE IF x.num < 0 THEN Rat(-1) ELSE Rat(0)

AllTerms(row) == [t \in 1..Len(row) |-> t]

\* dt_matrix.columns.values[dt_matrix.iloc[i] > 0]: the terms with a positive cell
PresentTerms(row) == SelectSeq([t \in 1..Len(row) |-> t], LAMBDA t : row[t] > 0)

\* doc_vectors: per document the mean (np.mean, axis=0) of the vectors of the terms
\* whose cell in dt_matrix is positive, each first multiplied by float(cell) when
\* weighting; NaN in every component when there is no such term.  With normalize,
\* nan_to_num and Normalizer follow (rows of one component).
vector_average(dt_matrix, term_vectors, weighting, normalize) ==
    [i \in 1..Len(dt_matrix.values) |->
        LET present == PresentTerms(dt_matrix.values[i])
            doc_term_vectors ==
                [q \in 1..Len(present) |->
                    [c \in 1..Len(term_vectors[present[q]]) |->
                        IF weighting
                        THEN RatMul(Rat(term_vectors[present[q]][c]),
                                    Rat(dt_matrix.values[i][present[q]]))
                        ELSE Rat(term_vectors[present[q]][c])]]
            mean == [c \in 1..Len(term_vectors[1]) |->
                        np_average([q \in 1..Len(present) |-> doc_term_vectors[q][c]])]
        IN IF normalize
           THEN [c \in 1..Len(mean) |-> NormalizeL2(nan_to_num(mean[c]))]
           ELSE mean]

\* (V * V.T).clip(min=0)
ClippedSimilarity(V) ==
    [r \in 1..Len(V) |-> [c \in 1..Len(V) |->
        IF RatMul(V[r], V[c]).num < 0 THEN Rat(0) ELSE RatMul(V[r], V[c])]]

(***************************************************************************)
(* aggregate_item_similarity.                                              *)
(***************************************************************************)
\* np.asmatrix(term_vectors) * np.asmatrix(term_vectors).T
TermSimilarity(term_vectors) ==
    LET RECURSIVE Dot(_, _, _)
        Dot(a, b, c) == IF c > Len(a) THEN 0 ELSE a[c] * b[c] + Dot(a, b, c + 1)
    IN [r \in 1..Len(term_vectors) |-> [c \in 1..Len(term_vectors) |->
           Rat(Dot(term_vectors[r], term_vectors[c], 1))]]

\* np.where(dt_matrix[ind] != 0)[0]
NonZeroIndices(row) == SelectSeq([t \in 1..Len(row) |-> t], LAMBDA t : row[t] # 0)

\* whether np.average(np.sort(term_sim_sub, axis=None)[-k:]) raises ValueError: it
\* never does; of an empty array numpy returns NaN with a RuntimeWarning
RaisesValueError(term_sim_sub) == FALSE

\* the loop body for one item pair: sim_avg and the increments of ctr_one, ctr_none
ItemPairSimilarity(term_similarity, row_1, row_2, n_similarities) ==
    LET term_indices_all == ItemIndicesAll(NonZeroIndices(row_1), NonZeroIndices(row_2))
        term_sim_sub == [q \in 1..Len(term_indices_all) |->
                            term_similarity[term_indices_all[q][1]][term_indices_all[q][2]]]
        nonzero == \E q \in 1..Len(term_sim_sub) : term_sim_sub[q].num # 0
    IN IF ~RaisesValueError(term_sim_sub)
       THEN [sim_avg |-> np_average(LastK(np_sort(term_sim_sub), TopK(n_similarities))),
             one |-> 0, none |-> 0]
       ELSE IF nonzero
       THEN [sim_avg |-> np_sort(term_sim_sub)[Len(term_sim_sub)], one |-> 1, none |-> 0]
       ELSE [sim_avg |-> Rat(0), one |-> 0, none |-> 1]

\* np.add(item_similarity, item_similarity.T); np.fill_diagonal(item_similarity, 1)
MirrorFloats(m) ==
    [r \in 1..Len(m) |-> [c \in 1..Len(m) |->
        IF r = c THEN Rat(1) ELSE RatAdd(m[r][c], m[c][r])]]

\* the call: the frame, and the two counters (printed when verbose)
aggregate_item_similarity(dt_matrix, term_vectors, n_similarities, verbose) ==
    LET term_similarity == TermSimilarity(term_vectors)
        n == Len(dt_matrix.values)
        Body(ind_1, ind_2) ==
            ItemPairSimilarity(term_similarity, dt_matrix.values[ind_1],
                               dt_matrix.values[ind_2], n_similarities)
        RECURSIVE Loop(_, _, _, _, _)
        Loop(m, ctr_one, ctr_none, ind_1, ind_2) ==
            IF ind_1 > n - 1 THEN [values |-> m, ctr_one |-> ctr_one, ctr_none |-> ctr_none]
            ELSE IF ind_2 > n THEN Loop(m, ctr_one, ctr_none, ind_1 + 1, ind_1 + 2)
            ELSE Loop(StoreCell(m, ind_1, ind_2, Body(ind_1, ind_2).sim_avg),
                      ctr_one + Body(ind_1, ind_2).one,
                      ctr_none + Body(ind_1, ind_2).none, ind_1, ind_2 + 1)
        looped == Loop(Full(n, n, Rat(0)), 0, 0, 1, 2)
    IN [index |-> dt_matrix.index,
        values |-> MirrorFloats(looped.values),
        ctr_one |-> looped.ctr_one, ctr_none |-> looped.ctr_none,
        printed |-> IF verbose THEN <<looped.ctr_one, looped.ctr_none>> ELSE <<>>]

(***************************************************************************)
(* Machine integers.  A number is kept as its bytes, lowest first, in two's *)
(* complement: 4 bytes for int32, 8 bytes for int64.  Sums and products    *)
(* drop the carry out of the highest byte, as the machine does.  A float64 *)
(* that holds an integer below 2^53 is kept as the 8 bytes of that integer.*)
(***************************************************************************)
\* the w lowest bytes of the natural number n
RECURSIVE ToBytes(_, _)
ToBytes(n, w) == IF w = 0 THEN <<>> ELSE <<n % 256>> \o ToBytes(n \div 256, w - 1)

\* carries of the column sums cols (lowest first) moved upwards, the last one dropped
RECURSIVE Carry(_, _)
Carry(cols, carry) ==
    IF cols = <<>> THEN <<>>
    ELSE <<(Head(cols) + carry) % 256>> \o Carry(Tail(cols), (Head(cols) + carry) \div 256)

AddBytes(a, b) == Carry([p \in 1..Len(a) |-> a[p] + b[p]], 0)

RECURSIVE ColumnSum(_, _, _, _)
ColumnSum(a, b, p, q) ==
    IF q > p THEN 0 ELSE a[q] * b[p + 1 - q] + ColumnSum(a, b, p, q + 1)

MulBytes(a, b) == Carry([p \in 1..Len(a) |-> ColumnSum(a, b, p, 1)], 0)

\* a number of w bytes widened to 8 bytes with its sign: float(x) of an integer,
\* exact for the magnitudes that occur
SignExtend(a) ==
    [p \in 1..8 |-> IF p <= Len(a) THEN a[p] ELSE IF a[Len(a)] >= 128 THEN 255 ELSE 0]

IsZeroBytes(a) == \A p \in 1..Len(a) : a[p] = 0

\* bytes per element of a dtype
ItemSize(dtype) == IF dtype = "int32" THEN 4 ELSE 8

(***************************************************************************)
(* term_term_cooccurrence.  dt_matrix is a frame [columns, values, dtype]  *)
(* whose column labels are distinct; term indices start at 0.              *)
(***************************************************************************)
\* dict_ix_term = {i: terms[i] for i in range(len(terms))}
DictIxTerm(terms) == [i \in 0..(Len(terms) - 1) |-> terms[i + 1]]

\* mutant of DictTermIx: every term is given index 0
DictTermIxZero(terms) == [t \in {terms[p] : p \in 1..Len(terms)} |-> 0]

\* dict_term_ix = {v: k for k, v in dict_ix_term.items()}: a later index of the
\* same term replaces an earlier one
DictTermIx(terms) ==
    [t \in {terms[p] : p \in 1..Len(terms)} |->
        CHOOSE i \in 0..(Len(terms) - 1) :
            /\ terms[i + 1] = t
            /\ \A o \in 0..(Len(terms) - 1) : terms[o + 1] = t => o <= i]

\* cell [r][c] of np.asarray(dt_matrix).T.dot(np.asarray(dt_matrix)), r and c from 0,
\* computed in the dtype of the matrix
RECURSIVE DotFrom(_, _, _, _)
DotFrom(dtm_in, r, c, d) ==
    LET w == ItemSize(dtm_in.dtype)
    IN IF d > Len(dtm_in.values) THEN ToBytes(0, w)
       ELSE AddBytes(MulBytes(ToBytes(dtm_in.values[d][r + 1], w),
                              ToBytes(dtm_in.values[d][c + 1], w)),
                     DotFrom(dtm_in, r, c, d + 1))

TTMatrix(dtm_in, r, c) == DotFrom(dtm_in, r, c, 1)

\* tt_dict[i]: for k in terms_ix, when tt_matrix[i][k] != 0 (column i, row k) the
\* entry [k] becomes float(tt_matrix[i][k]); every (i, k) is visited once
TTDictRow(dtm_in, terms_ix, i) ==
    [k \in {k \in {terms_ix[p] : p \in 1..Len(terms_ix)} :
                ~IsZeroBytes(TTMatrix(dtm_in, k, i))} |->
        SignExtend(TTMatrix(dtm_in, k, i))]

term_term_cooccurrence(dtm_in) ==
    LET terms == dtm_in.columns
        dict_ix_term == DictIxTerm(terms)
        dict_term_ix == DictTermIx(terms)
        terms_ix == [p \in 1..Len(terms) |-> dict_term_ix[terms[p]]]
    IN [tt_dict |-> [i \in 0..(Len(terms_ix) - 1) |-> TTDictRow(dtm_in, terms_ix, i)],
        dict_term_ix |-> dict_term_ix,
        dict_ix_term |-> dict_ix_term]

(***************************************************************************)
(* term_vectors_from_dict.  A vector is a sequence of integers; a row      *)
(* after Normalizer(norm='l2') is kept as the row and the mark "l2".       *)
(***************************************************************************)
\* np.zeros(n)
Zeros(n) == [c \in 1..n |-> 0]

\* len(next(iter(vector_dict.values()))): the length of the first vector of the
\* dictionary (all vectors of a vector dictionary have one length)
DictDimension(vdict) == Len(vdict[CHOOSE t \in DOMAIN vdict : TRUE])

\* term_vectors[i] after the loop: the vector of the term, or zeros on KeyError
TermRow(vdict, term) ==
    IF term \in DOMAIN vdict THEN vdict[term] ELSE Zeros(DictDimension(vdict))

\* ctr_oov after the loop
RECURSIVE CtrOov(_, _)
CtrOov(vdict, terms) ==
    IF terms = <<>> THEN 0
    ELSE (IF Head(terms) \in DOMAIN vdict THEN 0 ELSE 1) + CtrOov(vdict, Tail(terms))

\* the call: the frame it returns (index, values, the normalization applied) and
\* what it prints: the count of OOV words when verbose, nothing otherwise
term_vectors_from_dict(vdict, terms, normalize, verbose) ==
    IF vdict = <<>> THEN
        \* next(iter({}.values())) raises StopIteration
        [raised |-> "StopIteration", index |-> <<>>, values |-> <<>>, norm |-> "none",
         printed |-> <<>>]
    ELSE
        [raised |-> "none",
         index |-> terms,
         values |-> [p \in 1..Len(terms) |-> TermRow(vdict, terms[p])],
         norm |-> IF normalize THEN "l2" ELSE "none",
         printed |-> IF verbose THEN <<CtrOov(vdict, terms)>> ELSE <<>>]

(***************************************************************************)
(* The state: the caller's objects (the arguments of a call, which the     *)
(* callee may write to) and what the call returned.                        *)
(***************************************************************************)
VARIABLES
    pc,                      \* where the caller stands
    constituent_similarity,  \* item similarity matrix (values of the frame)
    gold_items,              \* the Items sheet, by column
    variable_ids,            \* the construct ids asked for
    n_similarities,
    construct_similarity,    \* what aggregate_construct_similarity returned
    gold_standard,           \* the GoldStandard sheet: rows (Poolid, VariableID)
    pool_ids,
    full_var_ids,
    construct_identity_gold, \* what recreate_construct_identity_gold returned
    corpus,                  \* parsed documents, each a string
    processing,
    dtm,                     \* what document_term_cooccurrence returned
    documents,               \* the caller's sequence of raw texts
    parser_config,           \* stemmer, lower, remove_stop_words, ignore_chars
    parsed,                  \* what parse_text returned
    parsed_again,            \* what a second call on the same sequence returned
    dt_matrix,               \* the document-term matrix given to term_term_cooccurrence
    tt_result,               \* what term_term_cooccurrence returned
    tt_result_again,         \* what a second call on the same matrix returned
    vector_dict,             \* term -> vector, given to term_vectors_from_dict
    target_terms,            \* the ordered list of terms asked for
    tvfd_options,            \* normalize and verbose
    tvfd_result,             \* what term_vectors_from_dict returned and printed
    glove_args,              \* tt_dict keys, n_components, n_epochs, workers of train_vectors_glove
    epoch,                   \* number of finished iterations of the epoch loop
    epoch_loss,              \* the list of the losses appended so far
    jobs,                    \* batches of the running epoch not yet taken by a worker
    worker,                  \* per worker thread the batch it works on, or None
    events,                  \* starts and parameter updates of batches, in the order they happened
    trained,                 \* the losses model.train has returned, in the order of the calls
    glove_result,            \* what train_vectors_glove returned
    lsa_args,                \* dt_matrix, n_components, return_doc_vectors of train_vectors_lsa
    lsa_result,              \* what train_vectors_lsa returned
    eval_args,               \* construct_similarity and construct_identity_gold given to evaluate
    eval_altered,            \* the same two matrices with other cells on and below the diagonal
    eval_result,             \* what evaluate returned for eval_args
    eval_result_altered,     \* what evaluate returned for eval_altered
    va_args,                 \* arguments of vector_average
    va_result,               \* its DataFrame doc_vectors
    ais_args,                \* arguments of aggregate_item_similarity
    ais_result,              \* its DataFrame item_similarity and what it prints
    aca_args,                \* arguments of aggregate_construct_similarity in author mode, and gold2funk
    aca_result,              \* its DataFrame construct_similarity
    pipe_data,               \* the data the script loads - the id lists and the two gold matrices
    pipe_call,               \* the latest call of evaluate by the script - its site, arguments and result
    pipe_iter,               \* parameter sets of the running grid search still to try
    mylsa_gold,              \* myLSA: what recreate_construct_identity_gold returned
    mylsa_labels             \* myLSA: construct_idn_gold_flat of evaluate

acsVars == <<constituent_similarity, gold_items, variable_ids, n_similarities,
             construct_similarity>>

rcigVars == <<gold_standard, pool_ids, full_var_ids, construct_identity_gold>>

dtcVars == <<corpus, processing, dtm>>

ptVars == <<documents, parser_config, parsed, parsed_again>>

ttcVars == <<dt_matrix, tt_result, tt_result_again>>

tvfdVars == <<vector_dict, target_terms, tvfd_options, tvfd_result>>

gloveVars == <<glove_args, epoch, epoch_loss, jobs, worker, events, trained, glove_result>>

lsaVars == <<lsa_args, lsa_result>>

evalVars == <<eval_args, eval_altered, eval_result, eval_result_altered>>

vaVars == <<va_args, va_result>>

aisVars == <<ais_args, ais_result>>

acaVars == <<aca_args, aca_result>>

pipeVars == <<pipe_data, pipe_call, pipe_iter>>

mylsaVars == <<mylsa_gold, mylsa_labels>>

vars == <<pc, acsVars, rcigVars, dtcVars, ptVars, ttcVars, tvfdVars, gloveVars, lsaVars, evalVars, vaVars, aisVars, acaVars, pipeVars, mylsaVars>>

\* an object that does not exist (yet)
None == <<>>

Idle_acs ==
    /\ constituent_similarity = None /\ gold_items = None /\ variable_ids = None
    /\ n_similarities = None /\ construct_similarity = None

Idle_rcig ==
    /\ gold_standard = None /\ pool_ids = None /\ full_var_ids = None
    /\ construct_identity_gold = None

Idle_dtc == corpus = None /\ processing = None /\ dtm = None

Idle_pt == documents = None /\ parser_config = None /\ parsed = None /\ parsed_again = None

Idle_ttc == dt_matrix = None /\ tt_result = None /\ tt_result_again = None

Idle_tvfd ==
    /\ vector_dict = None /\ target_terms = None /\ tvfd_options = None
    /\ tvfd_result = None

Idle_glove ==
    /\ glove_args = None /\ epoch = None /\ epoch_loss = None /\ jobs = None
    /\ worker = None /\ events = None /\ trained = None /\ glove_result = None

Idle_lsa ==
    /\ lsa_args = None /\ lsa_result = None

Idle_eval ==
    /\ eval_args = None /\ eval_altered = None /\ eval_result = None /\ eval_result_altered = None

Idle_va ==
    /\ va_args = None /\ va_result = None

Idle_ais ==
    /\ ais_args = None /\ ais_result = None

Idle_aca ==
    /\ aca_args = None /\ aca_result = None

Idle_pipe ==
    /\ pipe_data = None /\ pipe_call = None /\ pipe_iter = None

Idle_mylsa ==
    /\ mylsa_gold = None /\ mylsa_labels = None

(***************************************************************************)
(* Inputs of aggregate_construct_similarity.                               *)
(***************************************************************************)
ItemVectorValues == {Rat(v) : v \in 1..MaxVecValue} \cup {NaN}

\* item vectors of one component, one per item
ItemVectors(n) == [1..n -> ItemVectorValues]

\* the VariableId column: items of one construct are adjacent in the sheet
VariableIdColumns ==
    {col \in [1..NItems -> 1..MaxVarId] : \A p \in 1..(NItems - 1) : col[p] <= col[p + 1]}

\* lists of distinct construct ids, in any order
VariableIdLists ==
    UNION {{l \in [1..n -> 1..MaxVarId] : \A a, b \in 1..n : a # b => l[a] # l[b]} :
           n \in 1..MaxVarId}

InitACS ==
    /\ pc = "acs_call"
    /\ constituent_similarity \in {CosineSimilarity(V) : V \in ItemVectors(NItems)}
    /\ gold_items \in {[VariableId |-> col] : col \in VariableIdColumns}
    /\ variable_ids \in VariableIdLists
    /\ n_similarities \in 1..MaxNSim
    /\ construct_similarity = None
    /\ gold_standard = None /\ pool_ids = None /\ full_var_ids = None
    /\ construct_identity_gold = None
    /\ corpus = None /\ processing = None /\ dtm = None
    /\ documents = None /\ parser_config = None /\ parsed = None /\ parsed_again = None
    /\ Idle_ttc
    /\ Idle_tvfd
    /\ Idle_glove
    /\ Idle_lsa
    /\ Idle_eval
    /\ Idle_va
    /\ Idle_ais
    /\ Idle_aca
    /\ Idle_pipe
    /\ Idle_mylsa

\* construct_similarity = aggregate_construct_similarity(item_similarity, gold_items,
\*                                                       variable_ids, n_similarities=...)
CallACS ==
    /\ pc = "acs_call"
    /\ construct_similarity' =
           aggregate_construct_similarity(constituent_similarity, gold_items.VariableId,
                                          variable_ids, n_similarities)
    /\ pc' = "acs_returned"
    /\ UNCHANGED <<constituent_similarity, gold_items, variable_ids, n_similarities>>
    /\ UNCHANGED <<rcigVars, dtcVars, ptVars>>
    /\ UNCHANGED ttcVars
    /\ UNCHANGED tvfdVars
    /\ UNCHANGED gloveVars
    /\ UNCHANGED lsaVars
    /\ UNCHANGED evalVars
    /\ UNCHANGED vaVars
    /\ UNCHANGED aisVars
    /\ UNCHANGED acaVars
    /\ UNCHANGED pipeVars
    /\ UNCHANGED mylsaVars

SpecACS == InitACS /\ [][CallACS]_vars

(***************************************************************************)
(* Inputs of recreate_construct_identity_gold.                             *)
(***************************************************************************)
\* the sheet lists the rows of one pool together; a VariableID may be listed twice
GoldStandards ==
    {gs \in [1..NGoldRows -> [Poolid : 1..MaxPoolId, VariableID : 1..MaxVarId]] :
        \A q \in 1..(NGoldRows - 1) : gs[q].Poolid <= gs[q + 1].Poolid}

\* non-empty lists of distinct Poolids, in any order
PoolIdLists ==
    UNION {{l \in [1..n -> 1..MaxPoolId] : \A a, b \in 1..n : a # b => l[a] # l[b]} :
           n \in 1..MaxPoolId}

InitRCIG ==
    /\ pc = "rcig_call"
    /\ gold_standard \in GoldStandards
    /\ pool_ids \in PoolIdLists
    /\ full_var_ids \in {None} \cup VariableIdLists
    /\ construct_identity_gold = None
    /\ constituent_similarity = None /\ gold_items = None /\ variable_ids = None
    /\ n_similarities = None /\ construct_similarity = None
    /\ corpus = None /\ processing = None /\ dtm = None
    /\ documents = None /\ parser_config = None /\ parsed = None /\ parsed_again = None
    /\ Idle_ttc
    /\ Idle_tvfd
    /\ Idle_glove
    /\ Idle_lsa
    /\ Idle_eval
    /\ Idle_va
    /\ Idle_ais
    /\ Idle_aca
    /\ Idle_pipe
    /\ Idle_mylsa

\* construct_identity_gold = recreate_construct_identity_gold(gold_standard, pool_ids,
\*                                                            full_var_ids=...)
CallRCIG ==
    /\ pc = "rcig_call"
    /\ \E on_missing_row \in {"raise", "skip"} :
           construct_identity_gold' =
               recreate_construct_identity_gold(gold_standard, pool_ids, full_var_ids,
                                                on_missing_row)
    /\ pc' = "rcig_returned"
    /\ UNCHANGED <<gold_standard, pool_ids, full_var_ids>>
    /\ UNCHANGED <<acsVars, dtcVars, ptVars>>
    /\ UNCHANGED ttcVars
    /\ UNCHANGED tvfdVars
    /\ UNCHANGED gloveVars
    /\ UNCHANGED lsaVars
    /\ UNCHANGED evalVars
    /\ UNCHANGED vaVars
    /\ UNCHANGED aisVars
    /\ UNCHANGED acaVars
    /\ UNCHANGED pipeVars
    /\ UNCHANGED mylsaVars

SpecRCIG == InitRCIG /\ [][CallRCIG]_vars

(***************************************************************************)
(* Claims about recreate_construct_identity_gold.                          *)
(***************************************************************************)
RCIGReturned == pc = "rcig_returned" /\ construct_identity_gold.raised = "none"

GoldPositions == 1..Len(construct_identity_gold.index)

Gold(r, c) == construct_identity_gold.values[r][c]

\* the variables i and j are both listed in one pool of pool_ids
SharePool(i, j) ==
    \E a \in DOMAIN pool_ids : \E q1, q2 \in DOMAIN gold_standard :
        /\ q1 # q2
        /\ gold_standard[q1].Poolid = pool_ids[a] /\ gold_standard[q2].Poolid = pool_ids[a]
        /\ gold_standard[q1].VariableID = i /\ gold_standard[q2].VariableID = j

\* C5: the returned gold matrix is square, binary, symmetric and has diagonal 1.
GoldSquareBinarySymmetric ==
    RCIGReturned =>
        /\ Len(construct_identity_gold.values) = Len(construct_identity_gold.index)
        /\ \A r \in GoldPositions :
               /\ Len(construct_identity_gold.values[r]) = Len(construct_identity_gold.index)
               /\ Gold(r, r) = 1
               /\ \A c \in GoldPositions : Gold(r, c) \in {0, 1} /\ Gold(r, c) = Gold(c, r)

\* C5 witness: a matrix with a pair of variables that shares two pools
GoldSquareBinarySymmetricWitness ==
    /\ RCIGReturned
    /\ \E r, c \in GoldPositions :
           /\ r # c
           /\ Gold(r, c) = 1
           /\ \E q1, q2, q3, q4 \in DOMAIN gold_standard :
                  /\ gold_standard[q1].Poolid # gold_standard[q3].Poolid
                  /\ gold_standard[q1].Poolid = gold_standard[q2].Poolid
                  /\ gold_standard[q3].Poolid = gold_standard[q4].Poolid
                  /\ gold_standard[q1].VariableID = construct_identity_gold.index[r]
                  /\ gold_standard[q3].VariableID = construct_identity_gold.index[r]
                  /\ gold_standard[q2].VariableID = construct_identity_gold.index[c]
                  /\ gold_standard[q4].VariableID = construct_identity_gold.index[c]
                  /\ Len(pool_ids) = 2

\* C6: for two distinct variables of the matrix the cell is 1 exactly when some pool
\* of pool_ids lists both, and 0 otherwise.
GoldIffSharedPool ==
    RCIGReturned =>
        \A r, c \in GoldPositions :
            r # c => Gold(r, c) = IF SharePool(construct_identity_gold.index[r],
                                               construct_identity_gold.index[c])
                                  THEN 1 ELSE 0

\* C6 witness: i and j share a pool, j and k share a pool, i and k share none and
\* are not marked identical
GoldIffSharedPoolWitness ==
    /\ RCIGReturned
    /\ \E r, c, d \in GoldPositions :
           /\ Gold(r, c) = 1 /\ Gold(c, d) = 1 /\ Gold(r, d) = 0
           /\ r # c /\ c # d /\ r # d


(***************************************************************************)
(* Claims about aggregate_construct_similarity, stated on the caller's     *)
(* objects without the operators of the model above.                       *)
(***************************************************************************)
ACSReturned == pc = "acs_returned" /\ construct_similarity.raised = "none"

\* positions (rows and columns) of the returned matrix
ACSPositions == 1..Len(construct_similarity.index)

\* the items of the construct at position r of the result: its group
GroupItems(r) ==
    {p \in DOMAIN gold_items.VariableId :
        gold_items.VariableId[p] = construct_similarity.index[r]}

\* the cross-product of the constituents of two groups, as item pairs
CrossPairs(r, c) == GroupItems(r) \X GroupItems(c)

PairSim(pr) == constituent_similarity[pr[1]][pr[2]]

HasNaN(S) == \E pr \in S : IsNaN(PairSim(pr))

\* the sum of the similarities of a set of item pairs, none of them NaN
RECURSIVE SumSim(_)
SumSim(S) ==
    IF S = {} THEN Rat(0)
    ELSE LET pr == CHOOSE x \in S : TRUE
             rest == SumSim(S \ {pr})
         IN [num |-> PairSim(pr).num * rest.den + rest.num * PairSim(pr).den,
             den |-> PairSim(pr).den * rest.den]

\* x is the arithmetic mean of the similarities of the pairs in T
IsMeanOf(x, T) ==
    /\ ~IsNaN(x)
    /\ x.num * SumSim(T).den * Cardinality(T) = SumSim(T).num * x.den

\* T holds k largest similarities of S
IsTopK(T, S, k) ==
    /\ T \subseteq S
    /\ Cardinality(T) = k
    /\ \A t \in T : \A o \in S \ T : PairSim(o).num * PairSim(t).den
                                       <= PairSim(t).num * PairSim(o).den

Cell(r, c) == construct_similarity.values[r][c]

IsZero(x) == ~IsNaN(x) /\ x.num = 0

\* C1: for every pair of groups (r before c in sorted id order) whose cross-product
\* holds at least k = max(n_similarities, 2) similarity values, the cell (r, c) is the
\* arithmetic mean of the k largest of them; the index is the sorted id list.
TopKAverage ==
    ACSReturned =>
        /\ \A r, c \in ACSPositions :
               r < c => construct_similarity.index[r] < construct_similarity.index[c]
        /\ \A r, c \in ACSPositions :
               LET k == IF n_similarities < 2 THEN 2 ELSE n_similarities
               IN (r < c /\ Cardinality(CrossPairs(r, c)) >= k /\ ~HasNaN(CrossPairs(r, c)))
                  => \E T \in SUBSET CrossPairs(r, c) :
                         IsTopK(T, CrossPairs(r, c), k) /\ IsMeanOf(Cell(r, c), T)

\* C1 witness: n_similarities below 2, and a cross-product with more values than k,
\* not all equal, so that the choice of the k largest decides the cell
TopKAverageWitness ==
    /\ ACSReturned
    /\ n_similarities = 1
    /\ \E r, c \in ACSPositions :
           /\ r < c
           /\ Cardinality(CrossPairs(r, c)) > 2
           /\ ~HasNaN(CrossPairs(r, c))
           /\ \E a, b \in CrossPairs(r, c) : ~RatEq(PairSim(a), PairSim(b))
           /\ ~IsZero(Cell(r, c))

\* C2: the returned matrix is square and strictly upper triangular: every diagonal
\* cell and every cell below the diagonal is 0.
StrictUpperTriangular ==
    ACSReturned =>
        /\ Len(construct_similarity.values) = Len(construct_similarity.index)
        /\ \A r \in ACSPositions :
               /\ Len(construct_similarity.values[r]) = Len(construct_similarity.index)
               /\ \A c \in ACSPositions : r >= c => IsZero(Cell(r, c))

\* C2 witness: a 3 x 3 result whose cells above the diagonal are all non-zero
StrictUpperTriangularWitness ==
    /\ ACSReturned
    /\ Len(construct_similarity.index) = 3
    /\ \A r, c \in ACSPositions : r < c => ~IsZero(Cell(r, c))

\* the largest of the similarities of S (np.max: NaN when any is NaN)
IsMaxOf(x, S) ==
    IF HasNaN(S) THEN IsNaN(x)
    ELSE \E t \in S : RatEq(x, PairSim(t)) /\ IsTopK({t}, S, 1)

\* C3 as claimed: with m < n_similarities values in the cross-product the call does not
\* fail and the cell is the maximum of the values when m >= 1 (0 where that is NaN),
\* and 0 when m = 0.
FewerThanKTakesMax ==
    pc = "acs_returned" =>
        /\ construct_similarity.raised = "none"
        /\ \A r, c \in ACSPositions :
               (r < c /\ Cardinality(CrossPairs(r, c)) < n_similarities) =>
                   IF CrossPairs(r, c) = {} \/ HasNaN(CrossPairs(r, c))
                   THEN IsZero(Cell(r, c))
                   ELSE IsMaxOf(Cell(r, c), CrossPairs(r, c))

\* C3 amended: with m < n_similarities values in the cross-product the call does not
\* fail and the cell is the arithmetic mean of the m values when m >= 1 (0 where that
\* mean is NaN), and 0 when m = 0.
FewerThanKTakesMean ==
    pc = "acs_returned" =>
        /\ construct_similarity.raised = "none"
        /\ \A r, c \in ACSPositions :
               (r < c /\ Cardinality(CrossPairs(r, c)) < n_similarities) =>
                   IF CrossPairs(r, c) = {} \/ HasNaN(CrossPairs(r, c))
                   THEN IsZero(Cell(r, c))
                   ELSE IsMeanOf(Cell(r, c), CrossPairs(r, c))

\* C3 witness: a cross-product of two unequal values where n_similarities is 3
FewerThanKWitness ==
    /\ ACSReturned
    /\ n_similarities = 3
    /\ \E r, c \in ACSPositions :
           /\ r < c
           /\ Cardinality(CrossPairs(r, c)) = 2
           /\ ~HasNaN(CrossPairs(r, c))
           /\ \E a, b \in CrossPairs(r, c) : ~RatEq(PairSim(a), PairSim(b))

\* C4: no cell of the returned matrix is NaN, no error is raised, and a cell whose
\* top-k average is degenerate (empty cross-product, or a NaN among the similarities)
\* holds 0.
NoNaNCell ==
    pc = "acs_returned" =>
        /\ construct_similarity.raised = "none"
        /\ \A r, c \in ACSPositions :
               /\ ~IsNaN(Cell(r, c))
               /\ (r < c /\ (CrossPairs(r, c) = {} \/ HasNaN(CrossPairs(r, c))))
                      => IsZero(Cell(r, c))

\* C4 witness: one result with an empty cross-product and with a NaN similarity
NoNaNCellWitness ==
    /\ ACSReturned
    /\ \E r, c \in ACSPositions : r < c /\ CrossPairs(r, c) = {}
    /\ \E r, c \in ACSPositions :
           r < c /\ CrossPairs(r, c) # {} /\ HasNaN(CrossPairs(r, c))

(***************************************************************************)
(* Inputs of document_term_cooccurrence.                                   *)
(***************************************************************************)
\* apostrophe, a, b
TokenChars == {39, 97, 98}

Tokens == UNION {[1..n -> TokenChars] : n \in 1..MaxTokenLen}

\* documents as parse_text leaves them: tokens joined by single spaces
ParsedDocuments == {Join(words) : words \in UNION {[1..n -> Tokens] : n \in 1..MaxTokens}}

InitDTC ==
    /\ pc = "dtc_call"
    /\ corpus \in [1..NDocs -> ParsedDocuments]
    /\ processing \in {"count", "l2", "tfidf_l2", "log_l2", "unknown"}
    /\ dtm = None
    /\ constituent_similarity = None /\ gold_items = None /\ variable_ids = None
    /\ n_similarities = None /\ construct_similarity = None
    /\ gold_standard = None /\ pool_ids = None /\ full_var_ids = None
    /\ construct_identity_gold = None
    /\ documents = None /\ parser_config = None /\ parsed = None /\ parsed_again = None
    /\ Idle_ttc
    /\ Idle_tvfd
    /\ Idle_glove
    /\ Idle_lsa
    /\ Idle_eval
    /\ Idle_va
    /\ Idle_ais
    /\ Idle_aca
    /\ Idle_pipe
    /\ Idle_mylsa

\* dtm, terms = document_term_cooccurrence(corpus, processing=...)
CallDTC ==
    /\ pc = "dtc_call"
    /\ dtm' = document_term_cooccurrence(corpus, processing)
    /\ pc' = "dtc_returned"
    /\ UNCHANGED <<corpus, processing>>
    /\ UNCHANGED <<acsVars, rcigVars, ptVars>>
    /\ UNCHANGED ttcVars
    /\ UNCHANGED tvfdVars
    /\ UNCHANGED gloveVars
    /\ UNCHANGED lsaVars
    /\ UNCHANGED evalVars
    /\ UNCHANGED vaVars
    /\ UNCHANGED aisVars
    /\ UNCHANGED acaVars
    /\ UNCHANGED pipeVars
    /\ UNCHANGED mylsaVars

SpecDTC == InitDTC /\ [][CallDTC]_vars

(***************************************************************************)
(* Claims about document_term_cooccurrence.                                *)
(***************************************************************************)
\* doc.split(' '): the space-separated tokens of a document, verbatim
RECURSIVE SplitSpaces(_, _, _)
SplitSpaces(doc, p, word) ==
    IF p > Len(doc) THEN <<word>>
    ELSE IF doc[p] = Space THEN <<word>> \o SplitSpaces(doc, p + 1, <<>>)
    ELSE SplitSpaces(doc, p + 1, Append(word, doc[p]))

VerbatimTokens(doc) == SplitSpaces(doc, 1, <<>>)

\* C7: in mode 'count' the vocabulary is exactly the set of space-separated tokens of
\* the corpus, verbatim, and cell (d, t) counts the occurrences of token t in document d.
VocabularyVerbatim ==
    (pc = "dtc_returned" /\ processing = "count") =>
        /\ dtm.raised = "none"
        /\ {dtm.columns[t] : t \in DOMAIN dtm.columns}
               = UNION {{VerbatimTokens(corpus[d])[q] :
                            q \in DOMAIN VerbatimTokens(corpus[d])} : d \in DOMAIN corpus}
        /\ \A d \in DOMAIN corpus : \A t \in DOMAIN dtm.columns :
               dtm.values[d][t] = CountOf(VerbatimTokens(corpus[d]), dtm.columns[t])

(***************************************************************************)
(* Inputs of parse_text.                                                   *)
(***************************************************************************)
\* the words raw texts are made of: "A", "b", "B.", ".", "abs", "b.b"
RawWords == {<<65>>, <<98>>, <<66, 46>>, <<46>>, <<97, 98, 115>>, <<98, 46, 98>>}

\* raw texts: up to MaxTokens raw words joined by spaces (the empty text included)
RawDocuments == {Join(words) : words \in UNION {[1..n -> RawWords] : n \in 0..MaxTokens}}

\* elements that are not strings: the number 7
NonStrings == {NotAString(7)}

ParserConfigs ==
    [stemmer : {"None", "porter2", "paicehusk", "unknown"},
     lower : BOOLEAN,
     remove_stop_words : BOOLEAN,
     ignore_chars : {DefaultIgnoreChars, {}}]

InitPT ==
    /\ pc = "pt_call"
    /\ documents \in [1..NDocs -> RawDocuments \cup NonStrings]
    /\ parser_config \in ParserConfigs
    /\ parsed = None /\ parsed_again = None
    /\ constituent_similarity = None /\ gold_items = None /\ variable_ids = None
    /\ n_similarities = None /\ construct_similarity = None
    /\ gold_standard = None /\ pool_ids = None /\ full_var_ids = None
    /\ construct_identity_gold = None
    /\ corpus = None /\ processing = None /\ dtm = None
    /\ Idle_ttc
    /\ Idle_tvfd
    /\ Idle_glove
    /\ Idle_lsa
    /\ Idle_eval
    /\ Idle_va
    /\ Idle_ais
    /\ Idle_aca
    /\ Idle_pipe
    /\ Idle_mylsa

ParseTextCall(docs) ==
    parse_text(docs, parser_config.stemmer, parser_config.lower,
               parser_config.remove_stop_words, parser_config.ignore_chars)

\* parsed = parse_text(documents, stemmer=..., lower=..., ...)
CallPT ==
    /\ pc = "pt_call"
    /\ parsed' = ParseTextCall(documents)
    /\ documents' = ParseTextCall(documents).documents
    /\ pc' = "pt_returned"
    /\ UNCHANGED <<parser_config, parsed_again>>
    /\ UNCHANGED <<acsVars, rcigVars, dtcVars>>
    /\ UNCHANGED ttcVars
    /\ UNCHANGED tvfdVars
    /\ UNCHANGED gloveVars
    /\ UNCHANGED lsaVars
    /\ UNCHANGED evalVars
    /\ UNCHANGED vaVars
    /\ UNCHANGED aisVars
    /\ UNCHANGED acaVars
    /\ UNCHANGED pipeVars
    /\ UNCHANGED mylsaVars

\* the caller parses the same sequence once more, with the same configuration
CallPTAgain ==
    /\ pc = "pt_returned"
    /\ parsed_again' = ParseTextCall(documents)
    /\ documents' = ParseTextCall(documents).documents
    /\ pc' = "pt_returned_again"
    /\ UNCHANGED <<parser_config, parsed>>
    /\ UNCHANGED <<acsVars, rcigVars, dtcVars>>
    /\ UNCHANGED ttcVars
    /\ UNCHANGED tvfdVars
    /\ UNCHANGED gloveVars
    /\ UNCHANGED lsaVars
    /\ UNCHANGED evalVars
    /\ UNCHANGED vaVars
    /\ UNCHANGED aisVars
    /\ UNCHANGED acaVars
    /\ UNCHANGED pipeVars
    /\ UNCHANGED mylsaVars

NextPT == CallPT \/ CallPTAgain

SpecPT == InitPT /\ [][NextPT]_vars

(***************************************************************************)
(* Claims about parse_text.                                                *)
(***************************************************************************)
\* the normalized form of one raw text under the configuration of the call
NormalForm(doc) ==
    ParseDocument(CleanDocument(doc, parser_config.lower, parser_config.ignore_chars),
                  parser_config.stemmer, parser_config.remove_stop_words)

\* out is the sequence of the non-empty normalized forms of docs, in the order of docs
IsOrderedSelection(out, docs) ==
    \E f \in [1..Len(out) -> 1..Len(docs)] :
        /\ \A k \in 1..Len(out) : out[k] = NormalForm(docs[f[k]]) /\ out[k] # <<>>
        /\ \A k, l \in 1..Len(out) : k < l => f[k] < f[l]
        /\ \A p \in 1..Len(docs) :
               (\A k \in 1..Len(out) : f[k] # p) => NormalForm(docs[p]) = <<>>

\* C9: the output of a call is the sequence of the normalized forms of the input
\* documents in input order with exactly the empty ones removed (nothing reordered,
\* duplicated or merged), and a second call on the same sequence returns the same.
OrderPreserving ==
    [][/\ (pc = "pt_call" /\ \A i \in 1..Len(documents) : IsString(documents[i])) =>
             /\ parsed'.raised = "none"
             /\ IsOrderedSelection(parsed'.parsed_docs, documents)
       /\ pc = "pt_returned" => parsed_again'.parsed_docs = parsed.parsed_docs]_vars

\* C9 witness: of two documents the first was dropped (it holds only a stop word),
\* the second was kept and changed, and the second call has returned
OrderPreservingWitness ==
    /\ pc = "pt_returned_again"
    /\ parsed.raised = "none"
    /\ Len(parsed.parsed_docs) = 1
    /\ documents[1] # <<>>
    /\ NormalForm(documents[1]) = <<>>
    /\ parsed.parsed_docs[1] = NormalForm(documents[2])
    /\ parsed.parsed_docs[1] # documents[2]
    /\ parsed_again = parsed

\* C10: after the call every argument holds the values it held before: the
\* documents sequence given to parse_text is unchanged.
NoInputMutated ==
    [][pc = "pt_call" => documents' = documents]_vars

\* C11: whenever an element of the documents is not a string, the call fails with an
\* error whose message holds the (first) offending element and returns no parsed
\* documents; when every element is a string it does not fail.  The elements that
\* are not strings are never rewritten, so they are the same after the call.
NonStringFails ==
    pc = "pt_returned" =>
        IF \E i \in 1..Len(documents) : ~IsString(documents[i])
        THEN /\ parsed.raised = "AssertionError"
             /\ parsed.parsed_docs = <<>>
             /\ \E i \in 1..Len(documents) :
                    /\ ~IsString(documents[i])
                    /\ \A o \in 1..(i - 1) : IsString(documents[o])
                    /\ parsed.message = documents[i]
        ELSE parsed.raised = "none"

\* C11 witness: the second element is no string and the first one is a text with
\* words the parser keeps
NonStringFailsWitness ==
    /\ pc = "pt_returned"
    /\ parsed.raised = "AssertionError"
    /\ IsString(documents[1]) /\ NormalForm(documents[1]) # <<>>
    /\ documents[2] = NotAString(7)

\* the kept tokens of one raw text, unmodified and joined by single spaces
KeptUnmodified(doc) ==
    Join(KeptWords(CleanDocument(doc, parser_config.lower, parser_config.ignore_chars),
                   parser_config.remove_stop_words))

\* C12: with a stemming selector that names no known algorithm the call does not
\* raise and returns every kept token unmodified, as with stemming disabled,
\* whatever the known stemmers do on the token.
UnknownStemmerUnmodified ==
    [][(/\ pc = "pt_call"
        /\ parser_config.stemmer = "unknown"
        /\ \A i \in 1..Len(documents) : IsString(documents[i])) =>
           /\ parsed'.raised = "none"
           /\ parsed'.parsed_docs =
                  FilterNonEmpty([i \in 1..Len(documents) |-> KeptUnmodified(documents[i])])
           /\ parsed'.parsed_docs =
                  parse_text(documents, "None", parser_config.lower,
                             parser_config.remove_stop_words,
                             parser_config.ignore_chars).parsed_docs]_vars

\* C12 witness: an unknown selector, one returned document is "abs", which the
\* known stemmers shorten, and another is "b.b", on which porter2 raises
UnknownStemmerWitness ==
    /\ pc = "pt_returned"
    /\ parser_config.stemmer = "unknown"
    /\ parsed.raised = "none"
    /\ parsed.error_words = <<<<98, 46, 98>>>>
    /\ parsed.parsed_docs = <<<<97, 98, 115>>, <<98, 46, 98>>>>

(***************************************************************************)
(* The main script, from the parsing of the item texts to the construct    *)
(* similarity of the term vector averaging path.  gold_items holds the     *)
(* columns Text and VariableId; corpus is corpus_items, dtm is dtm_items,  *)
(* constituent_similarity is the item similarity DataFrame.                *)
(***************************************************************************)
\* ignore_chars of the script: the default characters and the underscore
ScriptIgnoreChars == DefaultIgnoreChars \cup {95}

\* item texts: "A.", "abs", "bb", "ab bb"
ItemTexts == {<<65, 46>>, <<97, 98, 115>>, <<98, 98>>, <<97, 98, 32, 98, 98>>}

InitScript ==
    /\ pc = "script_parse"
    /\ gold_items \in [Text : [1..NTexts -> ItemTexts], VariableId : [1..NTexts -> 1..MaxVarId]]
    \* load_data: variable_ids = np.sort(gold_items['VariableId'].unique())
    /\ variable_ids = SortedUnique({gold_items.VariableId[p] : p \in 1..NTexts})
    /\ corpus = None /\ dtm = None /\ processing = None
    /\ constituent_similarity = None /\ n_similarities = None /\ construct_similarity = None
    /\ gold_standard = None /\ pool_ids = None /\ full_var_ids = None
    /\ construct_identity_gold = None
    /\ documents = None /\ parser_config = None /\ parsed = None /\ parsed_again = None
    /\ Idle_ttc
    /\ Idle_tvfd
    /\ Idle_glove
    /\ Idle_lsa
    /\ Idle_eval
    /\ Idle_va
    /\ Idle_ais
    /\ Idle_aca
    /\ Idle_pipe
    /\ Idle_mylsa

\* corpus_items = parse_text(np.asarray(gold_items['Text']), stemmer='porter2', lower=True,
\*                           remove_stop_words=True, ignore_chars=ignore_chars)
ScriptParse ==
    /\ pc = "script_parse"
    /\ corpus' = parse_text(gold_items.Text, "porter2", TRUE, TRUE, ScriptIgnoreChars).parsed_docs
    /\ pc' = "script_dtm"
    /\ UNCHANGED <<acsVars, rcigVars, processing, dtm, ptVars>>
    /\ UNCHANGED ttcVars
    /\ UNCHANGED tvfdVars
    /\ UNCHANGED gloveVars
    /\ UNCHANGED lsaVars
    /\ UNCHANGED evalVars
    /\ UNCHANGED vaVars
    /\ UNCHANGED aisVars
    /\ UNCHANGED acaVars
    /\ UNCHANGED pipeVars
    /\ UNCHANGED mylsaVars

\* dtm_items, terms_items = document_term_cooccurrence(corpus_items, ...).  The later
\* steps read of dtm_items its row labels, its column labels and which cells are
\* positive; under 'tfidf_l2' these are the ones of the count matrix.
ScriptDTM ==
    /\ pc = "script_dtm"
    /\ dtm' = document_term_cooccurrence(corpus, "count")
    /\ pc' = IF dtm'.raised = "none" THEN "script_similarity" ELSE "script_failed"
    /\ UNCHANGED <<acsVars, rcigVars, corpus, processing, ptVars>>
    /\ UNCHANGED ttcVars
    /\ UNCHANGED tvfdVars
    /\ UNCHANGED gloveVars
    /\ UNCHANGED lsaVars
    /\ UNCHANGED evalVars
    /\ UNCHANGED vaVars
    /\ UNCHANGED aisVars
    /\ UNCHANGED acaVars
    /\ UNCHANGED pipeVars
    /\ UNCHANGED mylsaVars

\* item_vectors = vector_average(dtm_items, term_vectors, weighting=False);
\* item_similarity = DataFrame((V * V.T).clip(min=0), index=item_vectors.index.values).
\* The normalized term vectors come from the pre-trained file: any of 1 and -1 per term.
ScriptSimilarity ==
    /\ pc = "script_similarity"
    /\ \E term_vectors \in [1..Len(dtm.columns) -> {-1, 1}] :
           constituent_similarity' =
               LET item_vectors == vector_average(dtm, [t \in 1..Len(term_vectors) |->
                                                      <<term_vectors[t]>>], FALSE, TRUE)
               IN DataFrame(dtm.index, ClippedSimilarity([r \in 1..Len(item_vectors) |->
                                                             item_vectors[r][1]]))
    /\ pc' = "script_aggregate"
    /\ UNCHANGED <<gold_items, variable_ids, n_similarities, construct_similarity>>
    /\ UNCHANGED <<rcigVars, dtcVars, ptVars>>
    /\ UNCHANGED ttcVars
    /\ UNCHANGED tvfdVars
    /\ UNCHANGED gloveVars
    /\ UNCHANGED lsaVars
    /\ UNCHANGED evalVars
    /\ UNCHANGED vaVars
    /\ UNCHANGED aisVars
    /\ UNCHANGED acaVars
    /\ UNCHANGED pipeVars
    /\ UNCHANGED mylsaVars

\* construct_similarity = aggregate_construct_similarity(item_similarity, gold_items,
\*                                                       variable_ids, n_similarities=2)
ScriptAggregate ==
    /\ pc = "script_aggregate"
    /\ construct_similarity' =
           aggregate_construct_similarity(constituent_similarity.values,
                                          gold_items.VariableId, variable_ids, 2)
    /\ pc' = "script_done"
    /\ UNCHANGED <<constituent_similarity, gold_items, variable_ids, n_similarities>>
    /\ UNCHANGED <<rcigVars, dtcVars, ptVars>>
    /\ UNCHANGED ttcVars
    /\ UNCHANGED tvfdVars
    /\ UNCHANGED gloveVars
    /\ UNCHANGED lsaVars
    /\ UNCHANGED evalVars
    /\ UNCHANGED vaVars
    /\ UNCHANGED aisVars
    /\ UNCHANGED acaVars
    /\ UNCHANGED pipeVars
    /\ UNCHANGED mylsaVars

NextScript == ScriptParse \/ ScriptDTM \/ ScriptSimilarity \/ ScriptAggregate

SpecScript == InitScript /\ [][NextScript]_vars

\* the normalized form of an item text under the configuration of the script
ItemNormalForm(text) ==
    ParseDocument(CleanDocument(text, TRUE, ScriptIgnoreChars), "porter2", TRUE)

CellValues == {0, 1, 2, 65536}

\* the vocabulary: "aa", "ab", "bb", sorted
TermLabels == <<<<97, 97>>, <<97, 98>>, <<98, 98>>>>

InitTTC ==
    /\ pc = "ttc_call"
    /\ dt_matrix \in [columns : {SubSeq(TermLabels, 1, NTerms)},
                      values : [1..NDocs -> [1..NTerms -> CellValues]],
                      dtype : {"int32", "int64", "float64"}]
    /\ tt_result = None /\ tt_result_again = None
    /\ Idle_acs /\ Idle_rcig /\ Idle_dtc /\ Idle_pt
    /\ Idle_tvfd
    /\ Idle_glove
    /\ Idle_lsa
    /\ Idle_eval
    /\ Idle_va
    /\ Idle_ais
    /\ Idle_aca
    /\ Idle_pipe
    /\ Idle_mylsa

\* tt_dict, dict_term_ix, dict_ix_term = term_term_cooccurrence(dt_matrix)
CallTTC ==
    /\ pc = "ttc_call"
    /\ tt_result' = term_term_cooccurrence(dt_matrix)
    /\ pc' = "ttc_returned"
    /\ UNCHANGED <<dt_matrix, tt_result_again>>
    /\ UNCHANGED <<acsVars, rcigVars, dtcVars, ptVars>>
    /\ UNCHANGED tvfdVars
    /\ UNCHANGED gloveVars
    /\ UNCHANGED lsaVars
    /\ UNCHANGED evalVars
    /\ UNCHANGED vaVars
    /\ UNCHANGED aisVars
    /\ UNCHANGED acaVars
    /\ UNCHANGED pipeVars
    /\ UNCHANGED mylsaVars

\* the same call once more on the same matrix
CallTTCAgain ==
    /\ pc = "ttc_returned"
    /\ tt_result_again' = term_term_cooccurrence(dt_matrix)
    /\ pc' = "ttc_returned_again"
    /\ UNCHANGED <<dt_matrix, tt_result>>
    /\ UNCHANGED <<acsVars, rcigVars, dtcVars, ptVars>>
    /\ UNCHANGED tvfdVars
    /\ UNCHANGED gloveVars
    /\ UNCHANGED lsaVars
    /\ UNCHANGED evalVars
    /\ UNCHANGED vaVars
    /\ UNCHANGED aisVars
    /\ UNCHANGED acaVars
    /\ UNCHANGED pipeVars
    /\ UNCHANGED mylsaVars

NextTTC == CallTTC \/ CallTTCAgain

SpecTTC == InitTTC /\ [][NextTTC]_vars

(***************************************************************************)
(* Claims about term_term_cooccurrence.                                    *)
(***************************************************************************)
\* (DTM^T x DTM)[i][k] as a number: the sum over the documents of
\* DTM[d][i] * DTM[d][k], in 8 bytes, which hold it without loss
RECURSIVE TrueDotFrom(_, _, _)
TrueDotFrom(i, k, d) ==
    IF d > Len(dt_matrix.values) THEN ToBytes(0, 8)
    ELSE AddBytes(MulBytes(ToBytes(dt_matrix.values[d][i + 1], 8),
                           ToBytes(dt_matrix.values[d][k + 1], 8)),
                  TrueDotFrom(i, k, d + 1))

TermIndices == 0..(Len(dt_matrix.columns) - 1)

\* C13: the sparse map holds an entry [i][k] exactly when the sum over the documents
\* of DTM[d][i] * DTM[d][k] is not zero, and the entry is that sum; so the diagonal
\* entry is the sum of squares of its column, and [i][k] and [k][i] are equal.
SparseMapIsProduct ==
    pc = "ttc_returned" =>
        \A i, k \in TermIndices :
            /\ k \in DOMAIN tt_result.tt_dict[i] <=> ~IsZeroBytes(TrueDotFrom(i, k, 1))
            /\ k \in DOMAIN tt_result.tt_dict[i] =>
                   /\ tt_result.tt_dict[i][k] = TrueDotFrom(i, k, 1)
                   /\ i \in DOMAIN tt_result.tt_dict[k]
                   /\ tt_result.tt_dict[k][i] = tt_result.tt_dict[i][k]

VectorDicts ==
    UNION {[keys -> [1..VecDim -> {-1, 0, 1}]] :
               keys \in SUBSET {TermLabels[p] : p \in 1..Len(TermLabels)}}

TargetTermLists ==
    UNION {[1..n -> {TermLabels[p] : p \in 1..Len(TermLabels)}] : n \in 0..NTargets}

InitTVFD ==
    /\ pc = "tvfd_call"
    /\ vector_dict \in VectorDicts
    /\ target_terms \in TargetTermLists
    /\ tvfd_options \in [normalize : BOOLEAN, verbose : BOOLEAN]
    /\ tvfd_result = None
    /\ Idle_acs /\ Idle_rcig /\ Idle_dtc /\ Idle_pt /\ Idle_ttc
    /\ Idle_glove
    /\ Idle_lsa
    /\ Idle_eval
    /\ Idle_va
    /\ Idle_ais
    /\ Idle_aca
    /\ Idle_pipe
    /\ Idle_mylsa

\* tvfd_result = term_vectors_from_dict(vector_dict, target_terms, normalize, verbose)
CallTVFD ==
    /\ pc = "tvfd_call"
    /\ tvfd_result' = term_vectors_from_dict(vector_dict, target_terms,
                                              tvfd_options.normalize, tvfd_options.verbose)
    /\ pc' = "tvfd_returned"
    /\ UNCHANGED <<vector_dict, target_terms, tvfd_options>>
    /\ UNCHANGED <<acsVars, rcigVars, dtcVars, ptVars, ttcVars>>
    /\ UNCHANGED gloveVars
    /\ UNCHANGED lsaVars
    /\ UNCHANGED evalVars
    /\ UNCHANGED vaVars
    /\ UNCHANGED aisVars
    /\ UNCHANGED acaVars
    /\ UNCHANGED pipeVars
    /\ UNCHANGED mylsaVars

SpecTVFD == InitTVFD /\ [][CallTVFD]_vars

\* the positions of target_terms whose term is no key of the dictionary
AbsentPositions == {p \in 1..Len(target_terms) : target_terms[p] \notin DOMAIN vector_dict}

\* C15: with normalize off and a dictionary that is not empty, the call does not
\* fail, the result has one row per position of the list in the order of the list,
\* row p is the vector of term p or the zero vector of the dictionary's dimension,
\* and the tally of out-of-vocabulary terms the caller gets is the number of
\* positions whose term is absent.
OOVZeroAndCounted ==
    (pc = "tvfd_returned" /\ ~tvfd_options.normalize /\ vector_dict # <<>>) =>
        /\ tvfd_result.raised = "none"
        /\ tvfd_result.index = target_terms
        /\ Len(tvfd_result.values) = Len(target_terms)
        /\ \A p \in 1..Len(target_terms) :
               tvfd_result.values[p] =
                   IF p \in AbsentPositions
                   THEN [c \in 1..DictDimension(vector_dict) |-> 0]
                   ELSE vector_dict[target_terms[p]]
        /\ tvfd_result.printed = <<Cardinality(AbsentPositions)>>

(***************************************************************************)
(* train_vectors_glove.  glove.Glove is a library outside the repository:  *)
(* its constructor either returns a model or raises (it alone decides what *)
(* it accepts), its train runs one epoch on `workers` threads that share   *)
(* the batches of the job queue and returns the loss of the epoch, any     *)
(* float, when the epoch is over.  The parameter matrix W is kept as the   *)
(* number of updates applied to it.                                        *)
(***************************************************************************)
\* losses an epoch can report: two numbers and NaN
Losses == {Rat(0), Rat(1), NaN}

GloveArgs ==
    [keys : {0..(n - 1) : n \in 1..NTerms},
     n_components : -1..VecDim,
     n_epochs : -1..MaxEpochs,
     workers : 1..NWorkers]

InitGlove ==
    /\ pc = "glove_call"
    /\ glove_args \in GloveArgs
    /\ epoch = 0 /\ epoch_loss = <<>> /\ trained = <<>>
    /\ jobs = {} /\ worker = [w \in 1..glove_args.workers |-> None]
    /\ events = <<>>
    /\ glove_result = None
    /\ Idle_acs /\ Idle_rcig /\ Idle_dtc /\ Idle_pt /\ Idle_ttc /\ Idle_tvfd
    /\ Idle_lsa
    /\ Idle_eval
    /\ Idle_va
    /\ Idle_ais
    /\ Idle_aca
    /\ Idle_pipe
    /\ Idle_mylsa

otherVarsGlove == <<acsVars, rcigVars, dtcVars, ptVars, ttcVars, tvfdVars>>

\* what glove.Glove(tt_dict, d=d, ...) does: it draws the d columns of W from
\* uniform(-0.5 / d, 0.5 / d), which raises for d = 0 (division) and for d < 0
\* (no matrix of d columns); otherwise it returns a model
ConstructorOutcomes(d) == IF d <= 0 THEN {"raise"} ELSE {"model"}

\* model = glove.Glove(tt_dict, d=n_components, alpha=alpha, x_max=x_max): the
\* function checks no hyperparameter itself
GloveConstruct ==
    /\ pc = "glove_call"
    /\ \E outcome \in ConstructorOutcomes(glove_args.n_components) :
           IF outcome = "raise"
           THEN /\ pc' = "glove_raised"
                /\ glove_result' = [raised |-> "Error", vector_dict |-> <<>>, epoch_loss |-> <<>>]
           ELSE /\ pc' = "glove_loop"
                /\ UNCHANGED glove_result
    /\ UNCHANGED <<glove_args, epoch, epoch_loss, jobs, worker, events, trained>>
    /\ UNCHANGED otherVarsGlove
    /\ UNCHANGED lsaVars
    /\ UNCHANGED evalVars
    /\ UNCHANGED vaVars
    /\ UNCHANGED aisVars
    /\ UNCHANGED acaVars
    /\ UNCHANGED pipeVars
    /\ UNCHANGED mylsaVars

\* for epoch in range(n_epochs): the call of model.train puts the batches of the
\* epoch into the job queue
EpochStart ==
    /\ pc = "glove_loop"
    /\ epoch < glove_args.n_epochs
    /\ jobs' = 1..NBatches
    /\ pc' = "glove_train"
    /\ UNCHANGED <<glove_args, epoch, epoch_loss, worker, events, trained, glove_result>>
    /\ UNCHANGED otherVarsGlove
    /\ UNCHANGED lsaVars
    /\ UNCHANGED evalVars
    /\ UNCHANGED vaVars
    /\ UNCHANGED aisVars
    /\ UNCHANGED acaVars
    /\ UNCHANGED pipeVars
    /\ UNCHANGED mylsaVars

\* a worker thread takes a batch from the queue
WorkerTake(w) ==
    /\ pc = "glove_train"
    /\ worker[w] = None
    /\ \E b \in jobs :
           /\ jobs' = jobs \ {b}
           /\ worker' = [worker EXCEPT ![w] = [epoch |-> epoch + 1, batch |-> b]]
           /\ events' = Append(events, [kind |-> "start", epoch |-> epoch + 1, batch |-> b])
    /\ UNCHANGED <<pc, glove_args, epoch, epoch_loss, trained, glove_result>>
    /\ UNCHANGED otherVarsGlove
    /\ UNCHANGED lsaVars
    /\ UNCHANGED evalVars
    /\ UNCHANGED vaVars
    /\ UNCHANGED aisVars
    /\ UNCHANGED acaVars
    /\ UNCHANGED pipeVars
    /\ UNCHANGED mylsaVars

\* a worker thread applies the parameter update of its batch to W
WorkerApply(w) ==
    /\ pc = "glove_train"
    /\ worker[w] # None
    /\ events' = Append(events, [kind |-> "update", epoch |-> worker[w].epoch,
                                 batch |-> worker[w].batch])
    /\ worker' = [worker EXCEPT ![w] = None]
    /\ UNCHANGED <<pc, glove_args, epoch, epoch_loss, jobs, trained, glove_result>>
    /\ UNCHANGED otherVarsGlove
    /\ UNCHANGED lsaVars
    /\ UNCHANGED evalVars
    /\ UNCHANGED vaVars
    /\ UNCHANGED aisVars
    /\ UNCHANGED acaVars
    /\ UNCHANGED pipeVars
    /\ UNCHANGED mylsaVars

\* mutant of TrainOver: train returns as soon as the queue is empty
QueueDrained(queue, threads) == queue = {}

\* model.train returns: a call returns when the epoch is over, i.e. the queue is
\* empty and every worker thread has finished
TrainOver(queue, threads) ==
    queue = {} /\ \A w \in DOMAIN threads : threads[w] = None

\* mutant of AppendLoss: a NaN loss is not recorded
AppendLossUnlessNaN(losses, error) == IF IsNaN(error) THEN losses ELSE Append(losses, error)

\* epoch_loss.append(error)
AppendLoss(losses, error) == Append(losses, error)

\* error = model.train(...) returns; epoch_loss.append(error); next iteration
TrainReturn ==
    /\ pc = "glove_train"
    /\ TrainOver(jobs, worker)
    /\ \E error \in Losses :
           /\ trained' = Append(trained, error)
           /\ epoch_loss' = AppendLoss(epoch_loss, error)
    /\ epoch' = epoch + 1
    /\ pc' = "glove_loop"
    /\ UNCHANGED <<glove_args, jobs, worker, events, glove_result>>
    /\ UNCHANGED otherVarsGlove
    /\ UNCHANGED lsaVars
    /\ UNCHANGED evalVars
    /\ UNCHANGED vaVars
    /\ UNCHANGED aisVars
    /\ UNCHANGED acaVars
    /\ UNCHANGED pipeVars
    /\ UNCHANGED mylsaVars

\* the number of updates W holds
UpdatesApplied(evs) == Len(SelectSeq(evs, LAMBDA ev : ev.kind = "update"))

\* after the loop: vector_dict = {ix: list(model.W[ix]) for ix in tt_dict.keys()};
\* return vector_dict, np.asarray(epoch_loss)
ReadVectors ==
    /\ pc = "glove_loop"
    /\ ~(epoch < glove_args.n_epochs)
    /\ glove_result' =
           [raised |-> "none",
            vector_dict |-> [ix \in glove_args.keys |->
                                [dim |-> glove_args.n_components,
                                 updates |-> UpdatesApplied(events)]],
            epoch_loss |-> epoch_loss]
    /\ pc' = "glove_returned"
    /\ UNCHANGED <<glove_args, epoch, epoch_loss, jobs, worker, events, trained>>
    /\ UNCHANGED otherVarsGlove
    /\ UNCHANGED lsaVars
    /\ UNCHANGED evalVars
    /\ UNCHANGED vaVars
    /\ UNCHANGED aisVars
    /\ UNCHANGED acaVars
    /\ UNCHANGED pipeVars
    /\ UNCHANGED mylsaVars

NextGlove ==
    \/ GloveConstruct
    \/ EpochStart
    \/ \E w \in DOMAIN worker : WorkerTake(w)
    \/ \E w \in DOMAIN worker : WorkerApply(w)
    \/ TrainReturn
    \/ ReadVectors

SpecGlove == InitGlove /\ [][NextGlove]_vars

(***************************************************************************)
(* Claims about train_vectors_glove.                                       *)
(***************************************************************************)
\* C16: a call with n_epochs >= 0 that returns has run exactly n_epochs epochs, its
\* loss sequence has n_epochs entries, entry e is the loss epoch e reported, a NaN
\* among them included, and the dictionary has a vector for every key of tt_dict.
EveryEpochReported ==
    (pc = "glove_returned" /\ glove_args.n_epochs >= 0) =>
        /\ glove_result.raised = "none"
        /\ Len(trained) = glove_args.n_epochs
        /\ Len(glove_result.epoch_loss) = glove_args.n_epochs
        /\ \A e \in 1..glove_args.n_epochs : glove_result.epoch_loss[e] = trained[e]
        /\ DOMAIN glove_result.vector_dict = glove_args.keys

\* C16 witness: two epochs, the first reported NaN, the second a number
EveryEpochReportedWitness ==
    /\ pc = "glove_returned"
    /\ glove_args.n_epochs = 2
    /\ IsNaN(trained[1]) /\ ~IsNaN(trained[2])
    /\ Len(glove_result.epoch_loss) = 2

\* the update of batch b of epoch e is among the first i - 1 events
UpdatedBefore(e, b, i) ==
    \E j \in 1..(i - 1) : events[j] = [kind |-> "update", epoch |-> e, batch |-> b]

MisconfigurationFails ==
    (glove_args.n_components <= 0 \/ glove_args.n_epochs <= 0) =>
        /\ pc # "glove_returned"
        /\ trained = <<>>

(***************************************************************************)
(* train_vectors_lsa.  TruncatedSVD is sklearn's; the numbers it computes  *)
(* are left open, a vector is kept as its length.                          *)
(***************************************************************************)
\* what TruncatedSVD(n_components=k, algorithm='randomized') can make of a matrix of
\* n_features columns: an error or the number of rows of components_.  It
\* finds at most as many components as the matrix has columns and rows; asked for
\* more than n_features, a release either rejects k or returns the rows it found.
SVDOutcomes(n_samples, n_features, k) ==
    IF k <= n_features THEN {[error |-> "none", rows |-> k]}
    ELSE {[error |-> "ValueError", rows |-> 0],
          [error |-> "none", rows |-> Min(n_samples, n_features)]}

\* assert len(dt_matrix) >= n_components
EnoughDocuments(n_docs, k) == n_docs >= k

\* the result for one outcome of the factorization
LSAResult(dtm_in, outcome, return_doc_vectors) ==
    IF outcome.error # "none"
    THEN [raised |-> outcome.error, vector_dict |-> <<>>, doc_vectors |-> <<>>]
    ELSE [raised |-> "none",
          \* source_term_vectors.to_dict(orient='list'): column label -> column
          vector_dict |-> [t \in {dtm_in.columns[c] : c \in 1..Len(dtm_in.columns)} |->
                              [length |-> outcome.rows]],
          doc_vectors |-> IF return_doc_vectors
                          THEN [d \in 1..Len(dtm_in.values) |-> [length |-> outcome.rows]]
                          ELSE <<>>]

\* the results the call can have
train_vectors_lsa(dtm_in, k, return_doc_vectors) ==
    IF ~EnoughDocuments(Len(dtm_in.values), k)
    THEN {[raised |-> "AssertionError", vector_dict |-> <<>>, doc_vectors |-> <<>>]}
    ELSE {LSAResult(dtm_in, outcome, return_doc_vectors) :
              outcome \in SVDOutcomes(Len(dtm_in.values), Len(dtm_in.columns), k)}

\* document-term matrices of 1..NDocs documents and 1..NTerms terms
SmallMatrices ==
    UNION {[columns : {SubSeq(TermLabels, 1, t)}, values : [1..d -> [1..t -> {0, 1}]]] :
               <<d, t>> \in (1..NDocs) \X (1..NTerms)}

InitLSA ==
    /\ pc = "lsa_call"
    /\ lsa_args \in [dt_matrix : SmallMatrices, n_components : 1..MaxComponents,
                     return_doc_vectors : BOOLEAN]
    /\ lsa_result = None
    /\ Idle_acs /\ Idle_rcig /\ Idle_dtc /\ Idle_pt /\ Idle_ttc /\ Idle_tvfd /\ Idle_glove
    /\ Idle_eval
    /\ Idle_va
    /\ Idle_ais
    /\ Idle_aca
    /\ Idle_pipe
    /\ Idle_mylsa

\* lsa_result = train_vectors_lsa(dt_matrix, n_components=..., return_doc_vectors=...)
CallLSA ==
    /\ pc = "lsa_call"
    /\ lsa_result' \in train_vectors_lsa(lsa_args.dt_matrix, lsa_args.n_components,
                                         lsa_args.return_doc_vectors)
    /\ pc' = "lsa_returned"
    /\ UNCHANGED lsa_args
    /\ UNCHANGED <<acsVars, rcigVars, dtcVars, ptVars, ttcVars, tvfdVars, gloveVars>>
    /\ UNCHANGED evalVars
    /\ UNCHANGED vaVars
    /\ UNCHANGED aisVars
    /\ UNCHANGED acaVars
    /\ UNCHANGED pipeVars
    /\ UNCHANGED mylsaVars

SpecLSA == InitLSA /\ [][CallLSA]_vars

\* C19: the call fails exactly when n_components exceeds the number of documents
\* of the matrix; otherwise it returns a dictionary with exactly one key per term
\* of the matrix, each with a vector of length n_components.
FailsIffTooFewDocuments ==
    pc = "lsa_returned" =>
        LET n_docs == Len(lsa_args.dt_matrix.values)
            terms == lsa_args.dt_matrix.columns
        IN IF lsa_args.n_components > n_docs
           THEN lsa_result.raised # "none" /\ lsa_result.vector_dict = <<>>
           ELSE /\ lsa_result.raised = "none"
                /\ DOMAIN lsa_result.vector_dict = {terms[c] : c \in 1..Len(terms)}
                /\ \A t \in DOMAIN lsa_result.vector_dict :
                       lsa_result.vector_dict[t].length = lsa_args.n_components

(***************************************************************************)
(* evaluate, for two square matrices of one size.  roc_curve and           *)
(* roc_auc_score are sklearn's: functions of the two flat vectors alone.   *)
(***************************************************************************)
\* mutant of TriuIndices: the diagonal is included (k=0)
TriuIndicesWithDiagonal(n) ==
    LET RECURSIVE From(_, _)
        From(r, c) ==
            IF r > n THEN <<>>
            ELSE IF c > n THEN From(r + 1, r + 1)
            ELSE <<<<r, c>>>> \o From(r, c + 1)
    IN From(1, 1)

\* np.triu_indices(n, k=1): the cells above the diagonal, row by row
TriuIndices(n) ==
    LET RECURSIVE From(_, _)
        From(r, c) ==
            IF r > n THEN <<>>
            ELSE IF c > n THEN From(r + 1, r + 2)
            ELSE <<<<r, c>>>> \o From(r, c + 1)
    IN From(1, 2)

\* matrix[triu_indices]
Flat(matrix, indices) == [q \in 1..Len(indices) |-> matrix[indices[q][1]][indices[q][2]]]

\* roc_curve(y_true, y_score): per distinct score, from the highest down, the
\* numbers of negatives and positives scored at least that high
RocCurve(y_true, y_score) ==
    LET thresholds == {y_score[q] : q \in 1..Len(y_score)}
        At(t) == [fp |-> Cardinality({q \in 1..Len(y_true) : y_true[q] = 0 /\ y_score[q] >= t}),
                  tp |-> Cardinality({q \in 1..Len(y_true) : y_true[q] = 1 /\ y_score[q] >= t})]
        RECURSIVE Down(_)
        Down(T) ==
            IF T = {} THEN <<>>
            ELSE LET hi == CHOOSE t \in T : \A u \in T : u <= t
                 IN <<At(hi)>> \o Down(T \ {hi})
    IN Down(thresholds)

RocAucInverted(y_true, y_score) ==
    LET pos == {q \in 1..Len(y_true) : y_true[q] = 1}
        neg == {q \in 1..Len(y_true) : y_true[q] = 0}
        wins == Cardinality({pr \in pos \X neg : y_score[pr[1]] < y_score[pr[2]]})
        ties == Cardinality({pr \in pos \X neg : y_score[pr[1]] = y_score[pr[2]]})
    IN [num |-> 2 * wins + ties, den |-> 2 * Cardinality(pos) * Cardinality(neg)]

\* roc_auc_score(y_true, y_score): the share of (positive, negative) pairs the score
\* orders rightly, a tie counting half
RocAuc(y_true, y_score) ==
    LET pos == {q \in 1..Len(y_true) : y_true[q] = 1}
        neg == {q \in 1..Len(y_true) : y_true[q] = 0}
        wins == Cardinality({pr \in pos \X neg : y_score[pr[1]] > y_score[pr[2]]})
        ties == Cardinality({pr \in pos \X neg : y_score[pr[1]] = y_score[pr[2]]})
    IN [num |-> 2 * wins + ties, den |-> 2 * Cardinality(pos) * Cardinality(neg)]

\* the call; sklearn raises ValueError when y_true holds one class only
evaluate(sim, gold) ==
    LET triu_indices == TriuIndices(Len(sim))
        construct_sim_flat == Flat(sim, triu_indices)
        construct_idn_gold_flat == Flat(gold, triu_indices)
    IN IF {construct_idn_gold_flat[q] : q \in 1..Len(triu_indices)} # {0, 1}
       THEN [raised |-> "ValueError", y_true |-> construct_idn_gold_flat,
             y_score |-> construct_sim_flat, curve |-> <<>>, roc_auc |-> NaN]
       ELSE [raised |-> "none", y_true |-> construct_idn_gold_flat,
             y_score |-> construct_sim_flat,
             curve |-> RocCurve(construct_idn_gold_flat, construct_sim_flat),
             roc_auc |-> RocAuc(construct_idn_gold_flat, construct_sim_flat)]

\* the NVars x NVars matrix with the cells upper above the diagonal (row by row),
\* d on the diagonal and b below it
SquareMatrix(upper, d, b) ==
    [r \in 1..NVars |-> [c \in 1..NVars |->
        IF r = c THEN d
        ELSE IF r > c THEN b
        ELSE upper[(r - 1) * NVars - ((r * (r - 1)) \div 2) + (c - r)]]]

UpperCells == [1..((NVars * (NVars - 1)) \div 2) -> {0, 1}]

\* two pairs of matrices that agree above the diagonal
InitEvaluate ==
    /\ pc = "evaluate_call"
    /\ \E us \in UpperCells, ug \in UpperCells, ds, bs, dg, bg, da, ba \in {0, 1} :
           /\ eval_args = [sim |-> SquareMatrix(us, ds, bs), gold |-> SquareMatrix(ug, dg, bg)]
           /\ eval_altered = [sim |-> SquareMatrix(us, da, ba), gold |-> SquareMatrix(ug, ba, da)]
    /\ eval_result = None /\ eval_result_altered = None
    /\ Idle_acs /\ Idle_rcig /\ Idle_dtc /\ Idle_pt /\ Idle_ttc /\ Idle_tvfd /\ Idle_glove
    /\ Idle_lsa
    /\ Idle_va
    /\ Idle_ais
    /\ Idle_aca
    /\ Idle_pipe
    /\ Idle_mylsa

otherVarsEvaluate ==
    <<acsVars, rcigVars, dtcVars, ptVars, ttcVars, tvfdVars, gloveVars, lsaVars>>

\* fpr, tpr, roc_auc = evaluate(construct_similarity, construct_identity_gold)
CallEvaluate ==
    /\ pc = "evaluate_call"
    /\ eval_result' = evaluate(eval_args.sim, eval_args.gold)
    /\ pc' = "evaluate_returned"
    /\ UNCHANGED <<eval_args, eval_altered, eval_result_altered>>
    /\ UNCHANGED otherVarsEvaluate
    /\ UNCHANGED vaVars
    /\ UNCHANGED aisVars
    /\ UNCHANGED acaVars
    /\ UNCHANGED pipeVars
    /\ UNCHANGED mylsaVars

\* the same call on the altered matrices
CallEvaluateAltered ==
    /\ pc = "evaluate_returned"
    /\ eval_result_altered' = evaluate(eval_altered.sim, eval_altered.gold)
    /\ pc' = "evaluate_returned_altered"
    /\ UNCHANGED <<eval_args, eval_altered, eval_result>>
    /\ UNCHANGED otherVarsEvaluate
    /\ UNCHANGED vaVars
    /\ UNCHANGED aisVars
    /\ UNCHANGED acaVars
    /\ UNCHANGED pipeVars
    /\ UNCHANGED mylsaVars

NextEvaluate == CallEvaluate \/ CallEvaluateAltered

SpecEvaluate == InitEvaluate /\ [][NextEvaluate]_vars

\* the pairs i < j of 1..NVars
UpperPairs == {pr \in (1..NVars) \X (1..NVars) : pr[1] < pr[2]}

\* C20: evaluate scores exactly n(n-1)/2 samples, one per pair i < j, label and score
\* taken from cell (i, j) of the two matrices (the samples are, counted with
\* repetitions, the cells above the diagonal), and its output is the same for two
\* inputs that differ only on or below the diagonal.
OnlyStrictUpperRead ==
    pc = "evaluate_returned_altered" =>
        /\ 2 * Len(eval_result.y_true) = NVars * (NVars - 1)
        /\ Len(eval_result.y_score) = Len(eval_result.y_true)
        /\ \A label, score \in {0, 1} :
               Cardinality({q \in 1..Len(eval_result.y_true) :
                               /\ eval_result.y_true[q] = label
                               /\ eval_result.y_score[q] = score}) =
               Cardinality({pr \in UpperPairs :
                               /\ eval_args.gold[pr[1]][pr[2]] = label
                               /\ eval_args.sim[pr[1]][pr[2]] = score})
        /\ eval_result_altered = eval_result

\* C20 witness: the two inputs differ on and below the diagonal and the call
\* returned a curve and an AUC strictly between 0 and 1
OnlyStrictUpperReadWitness ==
    /\ pc = "evaluate_returned_altered"
    /\ eval_args.sim[1][1] # eval_altered.sim[1][1]
    /\ eval_args.sim[2][1] # eval_altered.sim[2][1]
    /\ eval_args.gold[1][1] # eval_altered.gold[1][1]
    /\ eval_args.gold[2][1] # eval_altered.gold[2][1]
    /\ eval_result.raised = "none"
    /\ eval_result.roc_auc.num > 0 /\ eval_result.roc_auc.num < eval_result.roc_auc.den
\* evaluate has returned or raised
EvaluateDone == pc \in {"evaluate_returned", "evaluate_returned_altered"}

\* the labels above the diagonal of the gold matrix
UpperLabels == {eval_args.gold[pr[1]][pr[2]] : pr \in UpperPairs}

\* every pair labelled identical has a strictly higher similarity than every pair
\* labelled non-identical
PerfectlySeparated ==
    \A p, q \in UpperPairs :
        (eval_args.gold[p[1]][p[2]] = 1 /\ eval_args.gold[q[1]][q[2]] = 0)
            => eval_args.sim[p[1]][p[2]] > eval_args.sim[q[1]][q[2]]

\* C21: when both classes occur among the labels above the diagonal and every
\* identical pair is scored strictly above every non-identical pair, evaluate
\* returns without an error an AUC of exactly 1.
PerfectSeparationGivesOne ==
    (EvaluateDone /\ UpperLabels = {0, 1} /\ PerfectlySeparated) =>
        /\ eval_result.raised = "none"
        /\ eval_result.roc_auc.den > 0
        /\ eval_result.roc_auc.num = eval_result.roc_auc.den

\* C21 witness: a call on perfectly separated input with two identical pairs and one
\* non-identical pair, and a lower triangle that contradicts the labels
PerfectSeparationWitness ==
    /\ pc = "evaluate_returned"
    /\ UpperLabels = {0, 1} /\ PerfectlySeparated
    /\ Cardinality({pr \in UpperPairs : eval_args.gold[pr[1]][pr[2]] = 1}) = 2
    /\ eval_args.gold[2][1] = 1 /\ eval_args.sim[2][1] = 0
    /\ eval_result.roc_auc.num = eval_result.roc_auc.den

\* C22: when the labels above the diagonal hold one class only, evaluate raises no
\* exception and returns the degenerate value of the ROC computation.
OneClassDoesNotRaise ==
    (EvaluateDone /\ UpperLabels # {0, 1}) => eval_result.raised = "none"

(***************************************************************************)
(* vector_average with normalize off.                                      *)
(***************************************************************************)
\* cells of a document-term matrix: counts, never negative
VACells == {0, 1, 2}

\* components of a term vector
VAComponents == {-1, 0, 2}

InitVA ==
    /\ pc = "va_call"
    /\ \E values \in [1..NDocs -> [1..NTerms -> VACells]],
          term_vectors \in [1..NTerms -> [1..VecDim -> VAComponents]],
          weighting \in BOOLEAN :
           va_args = [dt_matrix |-> [index |-> [i \in 1..NDocs |-> i],
                                     columns |-> [t \in 1..NTerms |-> t],
                                     values |-> values],
                      term_vectors |-> term_vectors,
                      weighting |-> weighting, normalize |-> FALSE]
    /\ va_result = None
    /\ Idle_acs /\ Idle_rcig /\ Idle_dtc /\ Idle_pt /\ Idle_ttc /\ Idle_tvfd /\ Idle_glove
    /\ Idle_lsa /\ Idle_eval
    /\ Idle_ais
    /\ Idle_aca
    /\ Idle_pipe
    /\ Idle_mylsa

\* doc_vectors = vector_average(dt_matrix, term_vectors, weighting, normalize=False)
CallVA ==
    /\ pc = "va_call"
    /\ va_result' = vector_average(va_args.dt_matrix, va_args.term_vectors,
                                   va_args.weighting, va_args.normalize)
    /\ pc' = "va_returned"
    /\ UNCHANGED va_args
    /\ UNCHANGED <<acsVars, rcigVars, dtcVars, ptVars, ttcVars, tvfdVars, gloveVars>>
    /\ UNCHANGED <<lsaVars, evalVars>>
    /\ UNCHANGED aisVars
    /\ UNCHANGED acaVars
    /\ UNCHANGED pipeVars
    /\ UNCHANGED mylsaVars

SpecVA == InitVA /\ [][CallVA]_vars

\* the terms with a non-zero weight in document i
NonZeroTerms(i) == {t \in 1..NTerms : va_args.dt_matrix.values[i][t] # 0}

\* w_t: 1 when weighting is off, the cell when it is on
TermWeight(i, t) == IF va_args.weighting THEN va_args.dt_matrix.values[i][t] ELSE 1

\* the sum over the set S of w_t * v_t[c]
RECURSIVE WeightedSum(_, _, _)
WeightedSum(S, i, c) ==
    IF S = {} THEN 0
    ELSE LET t == CHOOSE t \in S : TRUE
         IN TermWeight(i, t) * va_args.term_vectors[t][c] + WeightedSum(S \ {t}, i, c)

\* C23: with normalize off, the vector of every document with a non-zero cell is the
\* sum over the terms of non-zero weight of w_t * v_t divided by the number of those
\* terms (w_t = 1 without weighting, the cell with weighting).
MeanOverPresentTerms ==
    pc = "va_returned" =>
        \A i \in 1..NDocs : NonZeroTerms(i) # {} =>
            \A c \in 1..VecDim :
                RatEq(va_result[i][c],
                      [num |-> WeightedSum(NonZeroTerms(i), i, c),
                       den |-> Cardinality(NonZeroTerms(i))])

\* C23 witness: weighting is on, a document holds one term once and the other twice,
\* and its vector is neither the unweighted mean nor the sum divided by the weights
MeanOverPresentTermsWitness ==
    /\ pc = "va_returned"
    /\ va_args.weighting
    /\ va_args.dt_matrix.values[1][1] = 1 /\ va_args.dt_matrix.values[1][2] = 2
    /\ \A t \in 3..NTerms : va_args.dt_matrix.values[1][t] = 0
    /\ va_args.term_vectors[1][1] = 0 /\ va_args.term_vectors[2][1] = 2
    /\ RatEq(va_result[1][1], Rat(2))

(***************************************************************************)
(* The normalized document-term matrices.                                  *)
(***************************************************************************)
NormalizedModes == {"l2", "tfidf_l2", "log_l2"}

\* C24: in the modes 'l2', 'tfidf_l2' and 'log_l2' every row of the returned matrix
\* has L2 norm 1, except the rows of documents without a recognized term, which are
\* all zero.
NormalizedRows ==
    (pc = "dtc_returned" /\ processing \in NormalizedModes /\ dtm.raised = "none") =>
        \A d \in 1..Len(corpus) :
            IF FindTerms(corpus[d], 1, <<>>) = <<>>
            THEN \A t \in 1..Len(dtm.columns) : dtm.values[d].cells[t].num = 0
            ELSE dtm.values[d].divided

\* C24 witness: 'log_l2' on a corpus whose first document has no recognized term and
\* whose second holds one term once and nothing else
NormalizedRowsWitness ==
    /\ pc = "dtc_returned" /\ processing = "log_l2" /\ dtm.raised = "none"
    /\ FindTerms(corpus[1], 1, <<>>) = <<>>
    /\ Len(FindTerms(corpus[2], 1, <<>>)) = 1
    /\ dtm.values[2].divided /\ ~dtm.values[1].divided

(***************************************************************************)
(* aggregate_item_similarity on items with and without terms.              *)
(***************************************************************************)
InitAIS ==
    /\ pc = "ais_call"
    /\ \E values \in [1..NTexts -> [1..NTerms -> {0, 1}]],
          term_vectors \in [1..NTerms -> [1..VecDim -> {-1, 0, 1}]],
          n_sim \in 1..MaxNSim :
           ais_args = [dt_matrix |-> [index |-> [i \in 1..NTexts |-> i],
                                      columns |-> [t \in 1..NTerms |-> t],
                                      values |-> values],
                       term_vectors |-> term_vectors,
                       n_similarities |-> n_sim, verbose |-> TRUE]
    /\ ais_result = None
    /\ Idle_acs /\ Idle_rcig /\ Idle_dtc /\ Idle_pt /\ Idle_ttc /\ Idle_tvfd /\ Idle_glove
    /\ Idle_lsa /\ Idle_eval /\ Idle_va
    /\ Idle_aca
    /\ Idle_pipe
    /\ Idle_mylsa

\* result = aggregate_item_similarity(dt_matrix, term_vectors, n_similarities, verbose)
CallAIS ==
    /\ pc = "ais_call"
    /\ ais_result' = aggregate_item_similarity(ais_args.dt_matrix, ais_args.term_vectors,
                                               ais_args.n_similarities, ais_args.verbose)
    /\ pc' = "ais_returned"
    /\ UNCHANGED ais_args
    /\ UNCHANGED <<acsVars, rcigVars, dtcVars, ptVars, ttcVars, tvfdVars, gloveVars>>
    /\ UNCHANGED <<lsaVars, evalVars, vaVars>>
    /\ UNCHANGED acaVars
    /\ UNCHANGED pipeVars
    /\ UNCHANGED mylsaVars

SpecAIS == InitAIS /\ [][CallAIS]_vars

\* the terms of item i, and the number of values of the cross-product of a pair
ItemTerms(i) == {t \in 1..NTerms : ais_args.dt_matrix.values[i][t] # 0}

CrossSize(i, j) == Cardinality(ItemTerms(i)) * Cardinality(ItemTerms(j))

ItemPairs == {pr \in (1..NTexts) \X (1..NTexts) : pr[1] < pr[2]}

\* C25: a pair with an empty cross-product is stored as 0 and counted in ctr_none, a
\* pair with exactly one value is stored as that value and counted in ctr_one, and
\* the returned matrix is symmetric, has diagonal 1 and holds no NaN.
EdgeCasesFlagged ==
    pc = "ais_returned" =>
        /\ \A pr \in ItemPairs : CrossSize(pr[1], pr[2]) = 0 =>
               RatEq(ais_result.values[pr[1]][pr[2]], Rat(0))
        /\ ais_result.ctr_none =
               Cardinality({pr \in ItemPairs : CrossSize(pr[1], pr[2]) = 0})
        /\ \A pr \in ItemPairs : CrossSize(pr[1], pr[2]) = 1 =>
               \E t \in ItemTerms(pr[1]), u \in ItemTerms(pr[2]) :
                   RatEq(ais_result.values[pr[1]][pr[2]],
                         TermSimilarity(ais_args.term_vectors)[t][u])
        /\ ais_result.ctr_one =
               Cardinality({pr \in ItemPairs : CrossSize(pr[1], pr[2]) = 1})
        /\ \A r, c \in 1..NTexts :
               /\ ~IsNaN(ais_result.values[r][c])
               /\ RatEq(ais_result.values[r][c], ais_result.values[c][r])
               /\ r = c => RatEq(ais_result.values[r][c], Rat(1))

(***************************************************************************)
(* Stemming failures of parse_text.                                        *)
(***************************************************************************)
\* the outcome of the stemmer that parser_config selects
SelectedStemmer(word) ==
    IF parser_config.stemmer = "porter2" THEN stem_porter2(word) ELSE stem_paicehusk(word)

\* the kept words of one raw text
KeptOf(doc) ==
    KeptWords(CleanDocument(doc, parser_config.lower, parser_config.ignore_chars),
              parser_config.remove_stop_words)

\* the kept words of one raw text, each as its stem, or unstemmed when the selected
\* stemmer fails on it
StemmedBySelected(doc) ==
    LET words == KeptOf(doc)
    IN Join(Split(Join([q \in 1..Len(words) |->
                          IF SelectedStemmer(words[q]).raised THEN words[q]
                          ELSE SelectedStemmer(words[q]).stem])))

\* the kept words, from document i on, on which the selected stemmer fails
RECURSIVE FailedBySelected(_)
FailedBySelected(i) ==
    IF i > Len(documents) THEN <<>>
    ELSE SelectSeq(KeptOf(documents[i]), LAMBDA word : SelectedStemmer(word).raised)
             \o FailedBySelected(i + 1)

\* C26: with the selector 'porter2' or 'paicehusk' a token is passed through
\* unstemmed and recorded as an error word exactly when the selected stemmer fails
\* on it; a token the selected stemmer handles is emitted as its stem and is not
\* recorded, also when the other stemmer fails on it.
OnlySelectedStemmerFails ==
    [][(/\ pc = "pt_call"
        /\ parser_config.stemmer \in {"porter2", "paicehusk"}
        /\ \A i \in 1..Len(documents) : IsString(documents[i])) =>
           /\ parsed'.raised = "none"
           /\ parsed'.error_words = FailedBySelected(1)
           /\ parsed'.parsed_docs =
                  FilterNonEmpty([i \in 1..Len(documents) |->
                                     StemmedBySelected(documents[i])])]_vars

(***************************************************************************)
(* aggregate_construct_similarity in author mode.                          *)
(***************************************************************************)
\* the authors: the index of the author similarity matrix
AuthorNames == <<1, 2>>

\* construct ids of the author data
FunkIds == {11, 12}

\* lists of distinct construct ids
DistinctVarIdLists ==
    {l \in UNION {[1..n -> 1..MaxVarId] : n \in 2..MaxVarId} :
        \A p, q \in 1..Len(l) : p # q => l[p] # l[q]}

InitACA ==
    /\ pc = "aca_call"
    /\ \E cs \in [1..2 -> [1..2 -> {Rat(1), Rat(2)}]],
          vids \in DistinctVarIdLists,
          known \in SUBSET (1..MaxVarId),
          n_sim \in 1..MaxNSim :
        \E gold2funk \in [known -> FunkIds], construct_authors \in [FunkIds -> {1, 2}] :
           aca_args = [constituent_similarity |-> cs, authors |-> AuthorNames,
                       variable_ids |-> vids, construct_authors |-> construct_authors,
                       gold2funk |-> gold2funk, n_similarities |-> n_sim]
    /\ aca_result = None
    /\ Idle_acs /\ Idle_rcig /\ Idle_dtc /\ Idle_pt /\ Idle_ttc /\ Idle_tvfd /\ Idle_glove
    /\ Idle_lsa /\ Idle_eval /\ Idle_va /\ Idle_ais
    /\ Idle_pipe
    /\ Idle_mylsa

\* aggregate_construct_similarity(author_similarity, gold_items, variable_ids,
\*                                construct_authors=construct_authors, n_similarities=...)
CallACA ==
    /\ pc = "aca_call"
    /\ aca_result' =
           aggregate_construct_similarity_authors(
               aca_args.constituent_similarity, aca_args.authors, aca_args.variable_ids,
               aca_args.construct_authors, aca_args.gold2funk, aca_args.n_similarities)
    /\ pc' = "aca_returned"
    /\ UNCHANGED aca_args
    /\ UNCHANGED <<acsVars, rcigVars, dtcVars, ptVars, ttcVars, tvfdVars, gloveVars>>
    /\ UNCHANGED <<lsaVars, evalVars, vaVars, aisVars>>
    /\ UNCHANGED pipeVars
    /\ UNCHANGED mylsaVars

SpecACA == InitACA /\ [][CallACA]_vars

\* the construct has a known author
KnownAuthor(v) ==
    ~RaisesKeyError(aca_args.construct_authors, aca_args.gold2funk, v)

\* the top-k average of the similarities of the authors of two constructs
AuthorTopK(v, w) ==
    nan_to_num(SimAvg(aca_args.constituent_similarity,
                      ItemIndicesAll(AuthorIndices(aca_args.authors, aca_args.construct_authors,
                                                   aca_args.gold2funk, v),
                                     AuthorIndices(aca_args.authors, aca_args.construct_authors,
                                                   aca_args.gold2funk, w)),
                      aca_args.n_similarities))

\* C27: in author mode every pair i < j of constructs with known authors holds the
\* top-k average of their authors' similarities, whatever lies between them in the
\* row, and only pairs with a construct of unknown author are 0.
KnownPairsAveraged ==
    pc = "aca_returned" =>
        \A r, c \in 1..Len(aca_result.index) : r < c =>
            IF KnownAuthor(aca_result.index[r]) /\ KnownAuthor(aca_result.index[c])
            THEN aca_result.values[r][c] =
                     AuthorTopK(aca_result.index[r], aca_result.index[c])
            ELSE aca_result.values[r][c] = Rat(0)

(***************************************************************************)
(* The similarity matrix and the gold matrix of one variable_ids list, as  *)
(* they are built before evaluate.                                         *)
(***************************************************************************)
InitAlign ==
    /\ pc = "align_similarity"
    /\ constituent_similarity = CosineSimilarity([i \in 1..NItems |-> Rat(1)])
    /\ gold_items \in {[VariableId |-> col] : col \in VariableIdColumns}
    /\ variable_ids \in VariableIdLists
    /\ n_similarities = 2
    /\ construct_similarity = None
    /\ gold_standard \in GoldStandards
    /\ pool_ids \in PoolIdLists
    /\ full_var_ids = variable_ids
    /\ construct_identity_gold = None
    /\ Idle_dtc /\ Idle_pt /\ Idle_ttc /\ Idle_tvfd /\ Idle_glove
    /\ Idle_lsa /\ Idle_eval /\ Idle_va /\ Idle_ais /\ Idle_aca
    /\ Idle_pipe
    /\ Idle_mylsa

\* construct_similarity = aggregate_construct_similarity(item_similarity, gold_items,
\*                                                       variable_ids, n_similarities=2)
AlignSimilarity ==
    /\ pc = "align_similarity"
    /\ construct_similarity' =
           aggregate_construct_similarity(constituent_similarity, gold_items.VariableId,
                                          variable_ids, n_similarities)
    /\ pc' = "align_gold"
    /\ UNCHANGED <<constituent_similarity, gold_items, variable_ids, n_similarities>>
    /\ UNCHANGED <<rcigVars, dtcVars, ptVars, ttcVars, tvfdVars, gloveVars>>
    /\ UNCHANGED <<lsaVars, evalVars, vaVars, aisVars, acaVars>>
    /\ UNCHANGED pipeVars
    /\ UNCHANGED mylsaVars

\* construct_identity_gold = recreate_construct_identity_gold(gold_standard, pool_ids,
\*                                                            full_var_ids=variable_ids)
AlignGold ==
    /\ pc = "align_gold"
    /\ \E on_missing_row \in {"raise", "skip"} :
           construct_identity_gold' =
               recreate_construct_identity_gold(gold_standard, pool_ids, full_var_ids,
                                                on_missing_row)
    /\ pc' = "align_done"
    /\ UNCHANGED <<gold_standard, pool_ids, full_var_ids>>
    /\ UNCHANGED <<acsVars, dtcVars, ptVars, ttcVars, tvfdVars, gloveVars>>
    /\ UNCHANGED <<lsaVars, evalVars, vaVars, aisVars, acaVars>>
    /\ UNCHANGED pipeVars
    /\ UNCHANGED mylsaVars

NextAlign == AlignSimilarity \/ AlignGold

SpecAlign == InitAlign /\ [][NextAlign]_vars

\* C28: for any ordering of one variable_ids list the similarity matrix and the gold
\* matrix built from it carry the same sequence of row and column identifiers.
SameIdentifierSequence ==
    (/\ pc = "align_done"
     /\ construct_similarity.raised = "none"
     /\ construct_identity_gold.raised = "none") =>
        construct_similarity.index = construct_identity_gold.index

(***************************************************************************)
(* The calls of evaluate by the main script.  A similarity matrix is any   *)
(* symmetric matrix over its identifiers: the calls differ in the          *)
(* identifiers of the matrix they build and in the gold matrix they pass.  *)
(***************************************************************************)
\* parameter sets of a grid search
GridSize == 2

\* ascending lists of at least m of the ids in S
AscendingLists(S, m) == {SortedUnique(T) : T \in {T \in SUBSET S : Cardinality(T) >= m}}

\* symmetric 0/1 matrices over the identifiers ids with d on the diagonal
SymmetricFrames(ids, d) ==
    LET pairs == {pr \in (1..Len(ids)) \X (1..Len(ids)) : pr[1] < pr[2]}
    IN {[index |-> ids,
         values |-> [r \in 1..Len(ids) |-> [c \in 1..Len(ids) |->
                        IF r = c THEN d
                        ELSE IF r < c THEN upper[<<r, c>>] ELSE upper[<<c, r>>]]]] :
           upper \in [pairs -> {0, 1}]}

\* frame.loc[ids, ids]
Loc(frame, ids) ==
    LET Pos(v) == CHOOSE q \in 1..Len(frame.index) : frame.index[q] = v
    IN [index |-> ids,
        values |-> [r \in 1..Len(ids) |-> [c \in 1..Len(ids) |->
                       frame.values[Pos(ids[r])][Pos(ids[c])]]]]

\* The similarity matrices over the identifiers ids that the script may have built.
\* Their cells do not decide which arguments a call passes; three are kept: the one
\* that agrees with the gold standard, its complement, and the constant one.
SimilarityFrames(ids) ==
    LET gold == Loc(pipe_data.construct_identity_gold, ids)
        Frame(f(_)) ==
            [index |-> ids,
             values |-> [r \in 1..Len(ids) |-> [c \in 1..Len(ids) |->
                            IF r = c THEN 0 ELSE f(gold.values[r][c])]]]
        Same(x) == x
        Complement(x) == 1 - x
        Constant(x) == 0
    IN {Frame(Same), Frame(Complement), Frame(Constant)}

\* load_data, and var_ids_authors = np.sort(list(gold2funk.keys()));
\* construct_identity_gold_authors = construct_identity_gold.loc[var_ids_authors, var_ids_authors]
InitPipeline ==
    /\ pc = "pipe_lsa"
    /\ \E ids \in AscendingLists(1..(MaxVarId + 1), 2) :
        \E gold \in SymmetricFrames(ids, 1),
           authors \in AscendingLists({ids[q] : q \in 1..Len(ids)}, 1) :
           pipe_data = [variable_ids |-> ids, var_ids_authors |-> authors,
                        construct_identity_gold |-> gold,
                        construct_identity_gold_authors |-> Loc(gold, authors)]
    /\ pipe_call = None
    /\ pipe_iter = None
    /\ Idle_acs /\ Idle_rcig /\ Idle_dtc /\ Idle_pt /\ Idle_ttc /\ Idle_tvfd /\ Idle_glove
    /\ Idle_lsa /\ Idle_eval /\ Idle_va /\ Idle_ais /\ Idle_aca
    /\ Idle_mylsa

otherVarsPipeline ==
    <<acsVars, rcigVars, dtcVars, ptVars, ttcVars, tvfdVars, gloveVars, lsaVars, evalVars,
      vaVars, aisVars, acaVars>>

\* a call of evaluate outside a loop, on a similarity matrix over ids and the gold
\* matrix gold: an exception ends the script
EvaluateOnce(here, next, ids, gold, grid_next) ==
    /\ pc = here
    /\ \E sim \in SimilarityFrames(ids) :
           LET result == evaluate(sim.values, gold.values)
           IN /\ pipe_call' = [site |-> here, sim |-> sim, gold |-> gold, result |-> result]
              /\ pc' = IF result.raised = "none" THEN next ELSE "pipe_failed"
    /\ pipe_iter' = IF grid_next THEN GridSize ELSE None
    /\ UNCHANGED pipe_data
    /\ UNCHANGED otherVarsPipeline
    /\ UNCHANGED mylsaVars

\* one parameter set of a grid search: the loop ends after the last set or with an
\* AUC of 1 (early stopping); the bare except continues with the next set
EvaluateInGrid(here, next, ids, gold, grid_next) ==
    /\ pc = here
    /\ \E sim \in SimilarityFrames(ids) :
           LET result == evaluate(sim.values, gold.values)
               stop == /\ result.raised = "none"
                       /\ result.roc_auc.num = result.roc_auc.den
           IN /\ pipe_call' = [site |-> here, sim |-> sim, gold |-> gold, result |-> result]
              /\ pc' = IF pipe_iter = 1 \/ stop THEN next ELSE here
              /\ pipe_iter' = IF pipe_iter = 1 \/ stop
                              THEN (IF grid_next THEN GridSize ELSE None)
                              ELSE pipe_iter - 1
    /\ UNCHANGED pipe_data
    /\ UNCHANGED otherVarsPipeline
    /\ UNCHANGED mylsaVars

\* evaluate(construct_similarity_lsa, construct_identity_gold)
EvaluateLSA ==
    EvaluateOnce("pipe_lsa", "pipe_preglove", pipe_data.variable_ids,
                 pipe_data.construct_identity_gold, FALSE)

\* evaluate(construct_similarity_preglove, construct_identity_gold)
EvaluatePreGlove ==
    EvaluateOnce("pipe_preglove", "pipe_grid", pipe_data.variable_ids,
                 pipe_data.construct_identity_gold, TRUE)

\* grid search on the item corpus: evaluate(construct_similarity_trglove,
\* construct_identity_gold)
EvaluateGrid ==
    EvaluateInGrid("pipe_grid", "pipe_trglove", pipe_data.variable_ids,
                   pipe_data.construct_identity_gold, FALSE)

\* evaluate(construct_similarity_trglove, construct_identity_gold)
EvaluateTrGlove ==
    EvaluateOnce("pipe_trglove", "pipe_auth", pipe_data.variable_ids,
                 pipe_data.construct_identity_gold, FALSE)

\* evaluate(construct_similarity_authors, construct_identity_gold_authors)
EvaluateAuthors ==
    EvaluateOnce("pipe_auth", "pipe_lsa_auth", pipe_data.var_ids_authors,
                 pipe_data.construct_identity_gold_authors, FALSE)

\* evaluate(construct_similarity_lsa_authors, construct_identity_gold_authors)
EvaluateLSAAuthors ==
    EvaluateOnce("pipe_lsa_auth", "pipe_grid_auth", pipe_data.var_ids_authors,
                 pipe_data.construct_identity_gold_authors, TRUE)

\* grid search on the author corpus: evaluate(construct_similarity_glove_authors,
\* construct_identity_gold)
EvaluateGridAuthors ==
    EvaluateInGrid("pipe_grid_auth", "pipe_glove_auth", pipe_data.var_ids_authors,
                   pipe_data.construct_identity_gold, FALSE)

\* evaluate(construct_similarity_glove_authors, construct_identity_gold_authors)
EvaluateGloveAuthors ==
    EvaluateOnce("pipe_glove_auth", "pipe_done", pipe_data.var_ids_authors,
                 pipe_data.construct_identity_gold_authors, FALSE)

NextPipeline ==
    \/ EvaluateLSA \/ EvaluatePreGlove \/ EvaluateGrid \/ EvaluateTrGlove
    \/ EvaluateAuthors \/ EvaluateLSAAuthors \/ EvaluateGridAuthors \/ EvaluateGloveAuthors

SpecPipeline == InitPipeline /\ [][NextPipeline]_vars

\* C29: every call of evaluate by the script passes a similarity matrix and a gold
\* matrix keyed by the same identifiers in the same order; a matrix over
\* var_ids_authors is never scored against the full gold matrix.
EvaluateArgumentsAligned ==
    pipe_call # None => pipe_call.sim.index = pipe_call.gold.index

(***************************************************************************)
(* myLSA.py builds its own gold matrix and flattens it in its own          *)
(* evaluate; is_constructs.py builds and flattens the matrix of the same   *)
(* sheet with recreate_construct_identity_gold and np.triu_indices.        *)
(***************************************************************************)
\* myLSA.recreate_construct_identity_gold: the pools are those of the whole sheet, the
\* pair (var_id_1, var_id_2) is taken in sheet order and written with the chained
\* assignment construct_identity_gold[var_id_1][var_id_2] = 1, which addresses the
\* column var_id_1 and the row var_id_2; nothing is mirrored and the diagonal stays 0
myLSA_recreate_construct_identity_gold(gs, pool_id_list, variableIDs, on_missing_row) ==
    LET n == Len(variableIDs)
        RECURSIVE Fill(_, _, _, _)
        Fill(m, a, ind_1, ind_2) ==
            IF a > Len(pool_id_list) THEN DataFrame(variableIDs, m)
            ELSE LET pool_var_ids == PoolVarIds(gs, pool_id_list[a])
                 IN IF ind_1 > Len(pool_var_ids) - 1 THEN Fill(m, a + 1, 1, 2)
                    ELSE IF ind_2 > Len(pool_var_ids) THEN Fill(m, a, ind_1 + 1, ind_1 + 2)
                    ELSE LET var_id_1 == pool_var_ids[ind_1]
                             var_id_2 == pool_var_ids[ind_2]
                         IN IF LabelPositions(variableIDs, var_id_1) = {}
                            THEN Raised("KeyError")
                            ELSE IF LabelPositions(variableIDs, var_id_2) = {}
                            THEN (IF on_missing_row = "raise" THEN Raised("ValueError")
                                  ELSE Fill(m, a, ind_1, ind_2 + 1))
                            ELSE Fill(MarkIdentical(m,
                                          CHOOSE r \in LabelPositions(variableIDs, var_id_2) : TRUE,
                                          CHOOSE c \in LabelPositions(variableIDs, var_id_1) : TRUE),
                                      a, ind_1, ind_2 + 1)
    IN Fill(Full(n, n, 0), 1, 1, 2)

\* np.savetxt('construct_identity_gold.txt', ...): one line per row, each cell written
\* with the format %.18e; the labels of the frame are not written
SaveTxt(frame) ==
    [r \in 1..Len(frame.values) |->
        [c \in 1..Len(frame.values[r]) |->
            IF frame.values[r][c] = 1 THEN "1.000000000000000000e+00"
            ELSE "0.000000000000000000e+00"]]

\* np.loadtxt('construct_identity_gold.txt'): the floats the lines spell
LoadTxt(lines) ==
    [r \in 1..Len(lines) |->
        [c \in 1..Len(lines[r]) |->
            IF lines[r][c] = "1.000000000000000000e+00" THEN 1 ELSE 0]]

\* np.asarray(construct_identity_gold)[row_ind, range(row_ind + 1, len(...))]
RowAboveDiagonal(matrix, row_ind) ==
    [c \in 1..(Len(matrix) - row_ind) |-> matrix[row_ind][row_ind + c]]

\* the loop of myLSA.evaluate that appends the part of every row right of the diagonal
RECURSIVE myLSA_flatten(_, _)
myLSA_flatten(matrix, row_ind) ==
    IF row_ind > Len(matrix) THEN <<>>
    ELSE RowAboveDiagonal(matrix, row_ind) \o myLSA_flatten(matrix, row_ind + 1)

\* gold_standard['Poolid'].unique(): the pool ids in the order of their first row
\* (the rows of the sheet are grouped by pool)
SheetPoolIds(gs) == SortedUnique({gs[q].Poolid : q \in 1..Len(gs)})

\* one sheet and one sorted list of variable ids, handed to both programs
InitGoldPair ==
    /\ pc = "gold_pair"
    /\ gold_standard \in GoldStandards
    /\ pool_ids = SheetPoolIds(gold_standard)
    /\ full_var_ids \in AscendingLists(1..MaxVarId, 2)
    /\ construct_identity_gold = None
    /\ constituent_similarity = None /\ gold_items = None /\ variable_ids = None
    /\ n_similarities = None /\ construct_similarity = None
    /\ Idle_dtc /\ Idle_pt /\ Idle_ttc /\ Idle_tvfd /\ Idle_glove
    /\ Idle_lsa /\ Idle_eval /\ Idle_va /\ Idle_ais /\ Idle_aca
    /\ Idle_pipe
    /\ Idle_mylsa

otherVarsGoldPair ==
    <<acsVars, dtcVars, ptVars, ttcVars, tvfdVars, gloveVars, lsaVars, evalVars,
      vaVars, aisVars, acaVars, pipeVars>>

\* is_constructs: recreate_construct_identity_gold(gold_standard, pool_ids,
\*                                                 full_var_ids=variable_ids)
GoldOfIsConstructs ==
    /\ pc = "gold_pair"
    /\ construct_identity_gold = None
    /\ \E on_missing_row \in {"raise", "skip"} :
           construct_identity_gold' =
               recreate_construct_identity_gold(gold_standard, pool_ids, full_var_ids,
                                                on_missing_row)
    /\ UNCHANGED <<pc, gold_standard, pool_ids, full_var_ids, mylsa_gold, mylsa_labels>>
    /\ UNCHANGED otherVarsGoldPair

\* myLSA: recreate_construct_identity_gold(), called by evaluate when the file is absent
GoldOfMyLSA ==
    /\ pc = "gold_pair"
    /\ mylsa_gold = None
    /\ \E on_missing_row \in {"raise", "skip"} :
           mylsa_gold' =
               myLSA_recreate_construct_identity_gold(gold_standard,
                                                      SheetPoolIds(gold_standard),
                                                      full_var_ids, on_missing_row)
    /\ UNCHANGED <<pc, rcigVars, mylsa_labels>>
    /\ UNCHANGED otherVarsGoldPair

\* myLSA.evaluate: the matrix is the one just recreated, or the one read back from the
\* file of an earlier run, and its rows are flattened
FlattenOfMyLSA ==
    /\ pc = "gold_pair"
    /\ mylsa_gold # None
    /\ mylsa_gold.raised = "none"
    /\ mylsa_labels = None
    /\ \E from_file \in BOOLEAN :
           mylsa_labels' = myLSA_flatten(IF from_file THEN LoadTxt(SaveTxt(mylsa_gold))
                                         ELSE mylsa_gold.values, 1)
    /\ UNCHANGED <<pc, rcigVars, mylsa_gold>>
    /\ UNCHANGED otherVarsGoldPair

NextGoldPair == GoldOfIsConstructs \/ GoldOfMyLSA \/ FlattenOfMyLSA

SpecGoldPair == InitGoldPair /\ [][NextGoldPair]_vars

\* C30: for the same gold standard and variable id list, the gold label vector that
\* myLSA's evaluate reads equals, element by element, the one that is_constructs'
\* evaluate reads from its own gold matrix: a pair of constructs sharing a pool is
\* labelled 1 in both.
GoldLabelVectorsAgree ==
    (/\ construct_identity_gold # None
     /\ construct_identity_gold.raised = "none"
     /\ mylsa_labels # None)
    => mylsa_labels = Flat(construct_identity_gold.values,
                           TriuIndices(Len(construct_identity_gold.index)))

=============================================================================
